---- MODULE Spec2Model ----
(***************************************************************************)
(* Promotion reconciliation of the gitops-promotions-operator.             *)
(*                                                                         *)
(* One Promotion ("from-dev-to-prod") copies an ordered list of paths from *)
(* the source Environment ("dev") to the target Environment ("prod") and   *)
(* lands them through a pull request.  PromotionReconciler.Reconcile is    *)
(* modelled step by step: every call of the handler that can return an     *)
(* error is one action with a success and a failure outcome; the deferred  *)
(* status update and workspace removal are the Exit action.                *)
(*                                                                         *)
(* The git remote, the git provider and the resource store are the         *)
(* environment: a remote branch is a tree plus the list of commits made on *)
(* top of the target Environment's branch, a pull request is a record kept *)
(* by the provider, the stored Promotion status is what Status().Update    *)
(* last wrote.  Local reads of a freshly cloned repository (Worktree(),    *)
(* Head(), CommitObject()) are taken to succeed.                           *)
(***************************************************************************)
EXTENDS Integers, Sequences, FiniteSets, TLC

(***************************************************************************)
(* Bounds of the model.                                                    *)
(***************************************************************************)
MaxAttempts == 2
MaxSourceChanges == 1

(***************************************************************************)
(* The objects of the resource store.                                      *)
(***************************************************************************)
SourceEnv == "dev"
TargetEnv == "prod"
Envs == {SourceEnv, TargetEnv}
PromName == "from-dev-to-prod"
TargetBranch == "main"
Generation == 1

\* Source.Reference of an Environment: a branch, or nothing (a nil pointer).
NoReference == [branch |-> "nil"]
DefaultBranch == "master"

\* Environment.GetBranch
GetBranch(envSpec) ==
  IF envSpec.reference # NoReference THEN envSpec.reference.branch
  ELSE DefaultBranch

\* Source.URL of an Environment, as the pieces that the rewrite of
\* SetupGitAuthEnvironment tells apart: the scheme, the labels of the host,
\* "/" and the segments of the path.
GitHubURL == <<"https://", "github", ".com", "/", "org", "/", "repo">>
SelfHostedURL == <<"https://", "git", ".example", ".org", "/", "org", "/", "repo">>
URLs == {GitHubURL, SelfHostedURL}

\* Spec.GitProvider: the one provider the code knows, and none.
GitProviderGitHub == "github"
NoGitProvider == ""

\* The Secret that Source.SecretRef names: there with a private key that
\* parses, not there, or there with a key that does not parse.
SecretStates == {"valid", "missing", "malformed"}

\* Files of a repository tree under the Environment's path; a path is the
\* sequence of its components.  Content 0 is "absent".
Files == {<<"a", "v">>, <<"s", "c">>, <<"t">>}
Contents == {1, 2}
Absent == 0
Trees == [Files -> Contents \cup {Absent}]

\* obj.Spec.Copy: a directory copy, a file copied into a directory, a file
\* copied to a file path.
CopyList ==
  << [name |-> "A", source |-> <<"a">>, target |-> <<"a">>],
     [name |-> "B", source |-> <<"s", "c">>, target |-> <<"s">>],
     [name |-> "C", source |-> <<"t">>, target |-> <<"t">>] >>
NumOps == Len(CopyList)
OpNames == {CopyList[k].name : k \in 1..NumOps}

\* The specs held by the resource store: the Promotion's and, for each
\* Environment, the reference of its source; ref is the target's.
StoreSpecs(copy, ref) ==
  [promotion |-> [sourceEnvironmentRef |-> SourceEnv,
                  targetEnvironmentRef |-> TargetEnv,
                  copy |-> copy],
   environment |-> [e \in Envs |->
                      [reference |-> IF e = TargetEnv THEN ref
                                     ELSE [branch |-> TargetBranch],
                       url |-> GitHubURL,
                       secretRef |-> TRUE,
                       gitProvider |-> GitProviderGitHub]],
   secret |-> [e \in Envs |-> "valid"],
   present |-> Envs \cup {PromName}]

(***************************************************************************)
(* Conditions (api/v1alpha1).                                              *)
(***************************************************************************)
NoCondition == [status |-> "None", reason |-> "", message |-> ""]
SucceededReason == "Succeeded"

MsgPushed == "Pushed new commits to PR branch"
MsgCreated == "New Pull request created successfully"
MsgOpen == "A pull request is open for review."
MsgInSync == "Source and target environments are in sync, nothing to promote."

\* A PromotionReady that clears the recorded pull request.
PromotionReady_ForgetRequest(o, reason, message) ==
  [o EXCEPT !.ready = [status |-> "True", reason |-> reason, message |-> message],
            !.lastN = 0, !.lastURL = <<>>]

\* PromotionReady: the Ready condition becomes True with reason and message.
PromotionReady(o, reason, message) ==
  [o EXCEPT !.ready = [status |-> "True", reason |-> reason, message |-> message]]

\* PromotionNotReady: the Ready condition becomes False.  Reconcile never
\* calls it.
PromotionNotReady(o, reason, message) ==
  [o EXCEPT !.ready = [status |-> "False", reason |-> reason, message |-> message]]

NoURL == <<>>
WebURL(n) == <<"pull", n>>

InitStatus ==
  [lastN |-> 0, lastURL |-> NoURL, ready |-> NoCondition, observedGeneration |-> 0]

(***************************************************************************)
(* Paths and the copy primitive.                                           *)
(***************************************************************************)
IsPrefix(p, f) == Len(p) <= Len(f) /\ SubSeq(f, 1, Len(p)) = p

\* filepath-securejoin walks the unsafe path below the root one component
\* at a time; ".." at the root stays at the root.
RECURSIVE Walk(_, _)
Walk(cur, rest) ==
  IF rest = <<>> THEN cur
  ELSE IF Head(rest) = ".."
       THEN Walk(IF cur = <<>> THEN <<>> ELSE SubSeq(cur, 1, Len(cur) - 1),
                 Tail(rest))
       ELSE Walk(Append(cur, Head(rest)), Tail(rest))

\* securejoin.SecureJoin(root, unsafePath): the error and the joined path.
\* A repository tree has no symbolic links, so no link is followed.
SecureJoin(root, unsafePath) == [err |-> FALSE, path |-> root \o Walk(<<>>, unsafePath)]

\* Lines 229-230: the workspace of Environment e joined with its Spec.Path
\* (the root of the repository).
FullPath(e) == <<"tmp", e>>

\* A path below root, as the tree names it.
Rel(root, p) == SubSeq(p, Len(root) + 1, Len(p))

\* fs.Exists / os.Stat succeed: the path is a present file or a directory
\* holding one (a clone has no empty directories).
Exists(tree, p) == \E f \in Files : tree[f] # Absent /\ IsPrefix(p, f)

\* FileInfo.IsDir
IsDir(tree, p) == \E f \in Files : tree[f] # Absent /\ IsPrefix(p, f) /\ f # p

\* filepath.Base
Base(p) == p[Len(p)]

\* fs.CopyDirectory: every file below src lands below dst under the same
\* relative path; files of dst that src does not have are left alone.
CopyDirectory(srcTree, tgtTree, src, dst) ==
  [f \in Files |->
     IF \E g \in Files : /\ srcTree[g] # Absent
                         /\ IsPrefix(src, g)
                         /\ f = dst \o SubSeq(g, Len(src) + 1, Len(g))
     THEN LET g == CHOOSE h \in Files : /\ srcTree[h] # Absent
                                        /\ IsPrefix(src, h)
                                        /\ f = dst \o SubSeq(h, Len(src) + 1, Len(h))
          IN  srcTree[g]
     ELSE tgtTree[f]]

\* fs.Copy: the file's content lands at dst.
Copy(srcTree, tgtTree, src, dst) == [tgtTree EXCEPT ![dst] = srcTree[src]]

\* A CopyOperation that checks both paths and then copies nothing.
CopyOperation_Nothing(srcTree, tgtTree, copySource, copyTarget) ==
  [err |-> ~Exists(srcTree, copySource) \/ ~Exists(tgtTree, copyTarget),
   tree |-> tgtTree]

\* A CopyOperation without the fs.Exists check of its source: a missing
\* source copies nothing and is no error.
CopyOperation_SourceUnchecked(srcTree, tgtTree, copySource, copyTarget) ==
  IF ~Exists(srcTree, copySource)
  THEN [err |-> FALSE, tree |-> tgtTree]
  ELSE IF ~Exists(tgtTree, copyTarget)
  THEN [err |-> TRUE, tree |-> tgtTree]
  ELSE IF IsDir(srcTree, copySource)
  THEN IF IsDir(tgtTree, copyTarget)
       THEN [err |-> FALSE,
             tree |-> CopyDirectory(srcTree, tgtTree, copySource, copyTarget)]
       ELSE [err |-> TRUE, tree |-> tgtTree]
  ELSE LET dst == IF IsDir(tgtTree, copyTarget)
                  THEN Append(copyTarget, Base(copySource))
                  ELSE copyTarget
       IN  IF dst \in Files /\ ~IsDir(tgtTree, dst)
           THEN [err |-> FALSE, tree |-> Copy(srcTree, tgtTree, copySource, dst)]
           ELSE [err |-> TRUE, tree |-> tgtTree]

\* CopyOperation(ctx, obj, copySource, copyTarget): the error it returns and
\* the target worktree it leaves.
CopyOperation(srcTree, tgtTree, copySource, copyTarget) ==
  IF ~Exists(srcTree, copySource)
  THEN [err |-> TRUE, tree |-> tgtTree]
  ELSE IF ~Exists(tgtTree, copyTarget)
  THEN [err |-> TRUE, tree |-> tgtTree]
  ELSE IF IsDir(srcTree, copySource)
  THEN IF IsDir(tgtTree, copyTarget)
       THEN [err |-> FALSE,
             tree |-> CopyDirectory(srcTree, tgtTree, copySource, copyTarget)]
       ELSE [err |-> TRUE, tree |-> tgtTree]
  ELSE LET dst == IF IsDir(tgtTree, copyTarget)
                  THEN Append(copyTarget, Base(copySource))
                  ELSE copyTarget
       IN  IF dst \in Files /\ ~IsDir(tgtTree, dst)
           THEN [err |-> FALSE, tree |-> Copy(srcTree, tgtTree, copySource, dst)]
           ELSE [err |-> TRUE, tree |-> tgtTree]


(***************************************************************************)
(* Expressions of Reconcile.                                               *)
(***************************************************************************)
\* A reconciler that trusts the recorded number without looking at the list.
IsPROpen_TrustRecorded(lastN, listed) == lastN # 0

\* Lines 174-183: there is already an open pull request for this promotion.
IsPROpen(lastN, listed) == lastN # 0 /\ \E n \in listed : n = lastN

\* A reconciler that waits for the source Environment only.
EnvironmentsReady_SourceOnly(ready) == ready[SourceEnv]

\* Lines 90-102: both Environments report ready.
EnvironmentsReady(ready) == ready[SourceEnv] /\ ready[TargetEnv]

\* Lines 93-95, 99-101 and 355-357: the requeue delays, in seconds.
RequeueWait == 10
RequeueDone == 300

\* A Reconcile that asks for no requeue after a full success.
Returned_NoRepoll(res) ==
  CASE res = "wait" -> [requeueAfter |-> RequeueWait, err |-> FALSE]
    [] res = "ok"   -> [requeueAfter |-> 0, err |-> FALSE]
    [] res \in {"notfound", "gone"} -> [requeueAfter |-> 0, err |-> FALSE]
    [] OTHER        -> [requeueAfter |-> 0, err |-> TRUE]

\* What Reconcile returns: the ctrl.Result and the error.  Lines 68, 83 and
\* 87 return client.IgnoreNotFound(err) for a Promotion ("gone") or an
\* Environment ("notfound") that is not in the store: an empty Result and
\* no error.
Returned(res) ==
  CASE res = "wait" -> [requeueAfter |-> RequeueWait, err |-> FALSE]
    [] res = "ok"   -> [requeueAfter |-> RequeueDone, err |-> FALSE]
    [] res \in {"notfound", "gone"} -> [requeueAfter |-> 0, err |-> FALSE]
    [] OTHER        -> [requeueAfter |-> 0, err |-> TRUE]

\* Lines 419-423: the controller watches Promotions only.  An attempt is
\* delivered for the creation of the Promotion (no attempt has returned
\* yet), after a restart that follows a panic, as the retry of a returned
\* error, and when the delay that the last attempt asked for has passed.
Delivered(outcome) ==
  \/ outcome \in {"none", "panic"}
  \/ Returned(outcome).err
  \/ Returned(outcome).requeueAfter > 0

\* util.TempDirForObj: the k-th temporary directory of the attempt for obj.
TempDirForObj(name, k) == [obj |-> name, k |-> k]

\* Deferred removals that forget the directories.
RemoveAll_Nothing(dirs, defs) == dirs

\* Lines 109 and 121, environment_controller.go line 82: the deferred
\* os.RemoveAll calls, each on the directory named when it was deferred.
RemoveAll(dirs, defs) == dirs \ {defs[k] : k \in 1..Len(defs)}

\* strings.Index: where old first occurs in s, 0 when it does not.
RECURSIVE IndexFrom(_, _, _)
IndexFrom(s, old, i) ==
  IF i + Len(old) - 1 > Len(s) THEN 0
  ELSE IF SubSeq(s, i, i + Len(old) - 1) = old THEN i
  ELSE IndexFrom(s, old, i + 1)

Index(s, old) == IndexFrom(s, old, 1)

\* strings.Replace(s, old, new, 1)
Replace(s, old, new) ==
  LET i == Index(s, old) IN
    IF i = 0 THEN s
    ELSE SubSeq(s, 1, i - 1) \o new \o SubSeq(s, i + Len(old), Len(s))

NoAuth == [user |-> ""]

\* A SetupGitAuthEnvironment that goes on without credentials when the
\* Secret is not there or its key does not parse.
SetupGitAuthEnvironment_IgnoreSecret(envSpec, secret) ==
  IF ~envSpec.secretRef \/ secret # "valid"
  THEN [err |-> FALSE, auth |-> NoAuth, cloneURL |-> envSpec.url]
  ELSE [err |-> FALSE, auth |-> [user |-> "git"],
        cloneURL |-> Replace(Replace(envSpec.url, <<"https://">>, <<"git@">>),
                             <<".com", "/">>, <<".com", ":">>)]

\* SetupGitAuthEnvironment(ctx, client, obj): the error, the auth options
\* and the clone URL; secret is the state of the Secret that SecretRef names.
SetupGitAuthEnvironment(envSpec, secret) ==
  IF ~envSpec.secretRef
  THEN [err |-> FALSE, auth |-> NoAuth, cloneURL |-> envSpec.url]
  ELSE IF secret # "valid"
  THEN [err |-> TRUE, auth |-> NoAuth, cloneURL |-> envSpec.url]
  ELSE [err |-> FALSE, auth |-> [user |-> "git"],
        cloneURL |-> Replace(Replace(envSpec.url, <<"https://">>, <<"git@">>),
                             <<".com", "/">>, <<".com", ":">>)]

\* gogit.PlainClone reaches a repository at an https URL and at an scp-like
\* address user@host:path; "git@host/path" names neither.
CloneAccepts(url) ==
  \/ url[1] = "https://"
  \/ /\ url[1] = "git@"
     /\ Index(url, <<":">>) # 0
     /\ Index(url, <<":">>) < Index(url, <<"/">>)

\* NewGitProviderOrgRepository, lines 171-180: the provider client c, nil
\* when Spec.GitProvider is not GitProviderGitHub.
ProviderClient(envSpec) ==
  IF envSpec.gitProvider = GitProviderGitHub THEN "github" ELSE "nil"

\* A branch name without the time of the attempt.
NewBranchName_NoTime(name, t) == [prefix |-> "promotion", prom |-> name, ts |-> 0]

\* Line 210: promotion/<name>-<time of the attempt, to the second>.
NewBranchName(name, t) == [prefix |-> "promotion", prom |-> name, ts |-> t]

\* Lines 270-285: the commit message template.
CommitMessage(op, sha) ==
  [subject |-> op.name, from |-> SourceEnv, to |-> TargetEnv, sha |-> sha]

\* Lines 287-294: the commit object: its message, and the identity that the
\* parent, the tree and the commit time give it (commits of different
\* attempts are different objects).
NewCommit(op, sha, attempt) == [message |-> CommitMessage(op, sha), id |-> attempt]

\* A title that lists every declared operation, promoted or not.
PRTitle_AllOps(subjects) ==
  [subjects |-> [k \in 1..NumOps |-> CopyList[k].name],
   from |-> SourceEnv, to |-> TargetEnv]

\* Lines 320-321: "chore: promote <names joined by ', '> from <src> to <tgt>".
PRTitle(subjects) == [subjects |-> subjects, from |-> SourceEnv, to |-> TargetEnv]

\* A status check that reports every worktree as changed.
IsClean_Never(worktree, headTree) == FALSE

\* Line 252: gogit.Status.IsClean of the target worktree against HEAD.
IsClean(worktree, headTree) == worktree = headTree

\* A reconciler that opens a pull request whether or not it committed.
SyncCall_CreateAnyway(changed, open) ==
  IF open THEN (IF changed THEN "edit" ELSE "none") ELSE "create"

\* A reconciler that never edits an open pull request.
SyncCall_NoEdit(changed, open) ==
  IF changed /\ ~open THEN "create" ELSE "none"

\* Lines 319-345: the pull request call that SyncingRequest makes.
SyncCall(changed, open) ==
  IF ~changed THEN "none" ELSE IF open THEN "edit" ELSE "create"

\* A push of the checked-out branch is accepted when the remote does not
\* have the branch or the local history extends the remote one by new
\* commits (a fast-forward); an up-to-date or diverged branch is an error.
PushAccepted(rem, b, log) ==
  \/ b \notin DOMAIN rem
  \/ /\ b \in DOMAIN rem
     /\ Len(rem[b].log) < Len(log)
     /\ SubSeq(log, 1, Len(rem[b].log)) = rem[b].log

\* A push that does not reach the remote.
Pushed_Lost(rem, b, tree, log) == rem

\* Lines 299-305: the remote after an accepted push of branch b.
Pushed(rem, b, tree, log) ==
  [x \in DOMAIN rem \cup {b} |->
     IF x = b THEN [tree |-> tree, log |-> log] ELSE rem[x]]

NoBranch == NewBranchName("", 0)
NoPR == [number |-> 0, url |-> NoURL, head |-> NoBranch]

Ev(e, op, n, ok) == [e |-> e, op |-> op, n |-> n, ok |-> ok]

\* Line 145: a clone, and the branch it asks for.
CloneEv(envSpec, env, ok) ==
  [e |-> "clone", op |-> env, n |-> 0, ok |-> ok, ref |-> GetBranch(envSpec)]

\* An Environment that was never observed has no commit hash.
NoCommit == 0

\* EnvironmentReady: the commit and the condition Ready = True.
EnvironmentReady(st, commit) == [ready |-> TRUE, observedCommitHash |-> commit]

\* Promotion objects whose attempts may be in flight together, and the
\* random parts that os.MkdirTemp may give a directory name.
OtherProm == "from-dev-to-qa"
Proms == {PromName, OtherProm}
MaxSuffix == 3
Suffixes == 1..MaxSuffix

\* util.TempDirForObj makes a new directory: its name is not on the disk.
MkdirTemp(disk, name) == {TempDirForObj(name, k) : k \in Suffixes} \ disk

\* Both paths read from the variable tmpDir after its second assignment.
Workspaces_LastDir(made) ==
  [source |-> made[Len(made)], target |-> made[Len(made)]]

\* Lines 114 and 126: sourceEnvironmentPath is taken from tmpDir before
\* line 117 assigns it again, targetEnvironmentPath after.
Workspaces(made) == [source |-> made[1], target |-> made[2]]

\* No attempt is in flight.
NoAttempts ==
  [disk |-> {},
   at |-> [p \in Proms |-> "idle"],
   made |-> [p \in Proms |-> <<>>],
   used |-> [p \in Proms |-> {}]]

(***************************************************************************)
(* State.                                                                  *)
(***************************************************************************)
VARIABLES
  envReady,          \* Environment.IsReady of each Environment
  envObserved,       \* Environment.Status.ObservedCommitHash of each Environment
  srcTree, srcHead,  \* source repository: tree and head commit of its branch
  tgtMain,           \* target repository: tree of the configured branch
  remote,            \* target repository: promotion branches, name -> [tree, log]
  prs,               \* the provider's pull requests, by number
  stored,            \* Promotion status in the resource store
  now,               \* last reading of the clock, in seconds
  pc, result,        \* position of the running attempt and what it returns
  obj,               \* the attempt's copy of the Promotion status
  srcW, srcSha,      \* source workspace and the source head it was cloned at
  wtree, htree, head,\* target workspace: worktree, tree of HEAD, commits of HEAD
  isPROpen, prsList, pr, branch, promotedSubjects, beforeHeadRef, idx,
  events,            \* the calls the running attempt has issued, in order
  dirtied,           \* names of the operations whose copy changed the worktree
  attempts, srcChanges,
  hist,              \* how the previous attempt ended: its outcome and, when
                     \* it failed after a push, what it pushed and where it failed; whether
                     \* its workspaces were gone when it wrote the status
  tmpDirs, deferred, \* temporary directories on disk; the removals deferred
  specs,             \* the specs of the objects in the resource store
  outage,            \* external calls may fail
  conc               \* attempts of several Promotions in flight at once:
                     \* their positions, their directories, the disk

envStatus == <<envReady, envObserved>>
world == <<envStatus, srcTree, srcHead, tgtMain, remote, prs, stored, now>>
locals == <<obj, srcW, srcSha, wtree, htree, head, isPROpen, prsList, pr,
            branch, promotedSubjects, beforeHeadRef, idx>>
counters == <<attempts, srcChanges>>
workspaces == <<tmpDirs, deferred>>
aside == <<workspaces, specs, outage, conc>>
vars == <<world, pc, result, locals, events, dirtied, counters, hist, aside>>

EmptyTree == [f \in Files |-> Absent]
EmptyMap == [x \in {} |-> 0]

InitWith(sp) ==
  /\ envReady = [e \in Envs |-> FALSE]
  /\ envObserved = [e \in Envs |-> NoCommit]
  /\ srcTree \in Trees
  /\ srcHead = 1
  /\ tgtMain \in [Files -> {Absent, 1}]
  /\ \/ \A f \in Files : srcTree[f] # Absent /\ tgtMain[f] # Absent
     \/ /\ Cardinality({f \in Files : srcTree[f] = Absent \/ tgtMain[f] = Absent}) = 1
        /\ \A f \in Files : srcTree[f] \in {Absent, 1}
  /\ remote = EmptyMap
  /\ prs = <<>>
  /\ stored = InitStatus
  /\ now = 0
  /\ pc = "idle" /\ result = "none"
  /\ obj = InitStatus
  /\ srcW = EmptyTree /\ srcSha = 0
  /\ wtree = EmptyTree /\ htree = EmptyTree /\ head = <<>>
  /\ isPROpen = FALSE /\ prsList = {} /\ pr = NoPR /\ branch = NoBranch
  /\ promotedSubjects = <<>> /\ beforeHeadRef = <<>> /\ idx = 0
  /\ events = <<>> /\ dirtied = {}
  /\ attempts = 0 /\ srcChanges = 0
  /\ hist = [outcome |-> "none", pushed |-> <<>>, failed |-> "", quiet |-> FALSE,
             clean |-> TRUE]
  /\ tmpDirs = {} /\ deferred = <<>>
  /\ specs = sp
  /\ outage = TRUE
  /\ conc = NoAttempts

\* The Promotion of the README: plain paths, a target branch that is set.
Init == InitWith(StoreSpecs(CopyList, [branch |-> TargetBranch]))


(***************************************************************************)
(* Steps of PromotionReconciler.Reconcile.                                 *)
(***************************************************************************)
\* GitCloneEnvironment, lines 138-141: the credentials of Environment env as
\* the store has them now, and whether reading them can fail.
GitAuth(env) == SetupGitAuthEnvironment(specs.environment[env], specs.secret[env])
AuthFails(env) == GitAuth(env).err \/ (outage /\ specs.environment[env].secretRef)

\* A call returned an error: Reconcile returns it; the deferred calls run at
\* Exit.  dirs and defs are the temporary directories and the deferred
\* removals at the return.
AbortWith(ev, dirs, defs) ==
  /\ pc' = "exit"
  /\ result' = "err"
  /\ events' = Append(events, ev)
  /\ tmpDirs' = dirs
  /\ deferred' = defs
  /\ UNCHANGED <<specs, outage, conc, world, locals, dirtied, counters, hist>>

\* A reconciler that logs the error of a call and goes on to the pull
\* request.
Abort_Continue(ev) ==
  /\ pc' = "sync"
  /\ events' = Append(events, ev)
  /\ UNCHANGED <<world, result, locals, dirtied, counters, hist, aside>>

\* A call returned an error with nothing made since the last call.
Abort(ev) == AbortWith(ev, tmpDirs, deferred)

\* Lines 80-88: both referenced Environments are in the store.
EnvironmentsFound(sp) ==
  {sp.promotion.sourceEnvironmentRef, sp.promotion.targetEnvironmentRef}
    \subseteq sp.present

\* Lines 60-102: read the Promotion and both Environments; return when one
\* of them is not found, wait when one of them is not ready.
Begin ==
  /\ pc = "idle"
  /\ PromName \in specs.present
  /\ attempts < MaxAttempts
  /\ Delivered(hist.outcome)
  /\ attempts' = attempts + 1
  /\ obj' = stored
  /\ srcW' = EmptyTree /\ srcSha' = 0
  /\ wtree' = EmptyTree /\ htree' = EmptyTree /\ head' = <<>>
  /\ isPROpen' = FALSE /\ prsList' = {} /\ pr' = NoPR /\ branch' = NoBranch
  /\ promotedSubjects' = <<>> /\ beforeHeadRef' = <<>> /\ idx' = 0
  /\ events' = <<>> /\ dirtied' = {}
  /\ IF ~EnvironmentsFound(specs)
     THEN pc' = "exit" /\ result' = "notfound"
     ELSE IF EnvironmentsReady(envReady)
     THEN pc' = "cloneSource" /\ result' = "none"
     ELSE pc' = "exit" /\ result' = "wait"
  /\ UNCHANGED <<aside, world, srcChanges, hist>>

\* Lines 104-114: GitCloneEnvironment of the source Environment, and the
\* head commit read at lines 144-157.
CloneSource ==
  /\ pc = "cloneSource"
  /\ LET tmpDir == TempDirForObj(PromName, 1) IN
     \/ outage /\ Abort(Ev("tempdir", SourceEnv, 0, FALSE))
     \/ /\ AuthFails(SourceEnv)
        /\ AbortWith(Ev("auth", SourceEnv, 0, FALSE),
                     tmpDirs \cup {tmpDir}, Append(deferred, tmpDir))
     \/ /\ ~GitAuth(SourceEnv).err /\ CloneAccepts(GitAuth(SourceEnv).cloneURL)
        /\ pc' = "cloneTarget"
        /\ tmpDirs' = tmpDirs \cup {tmpDir}
        /\ deferred' = Append(deferred, tmpDir)
        /\ srcW' = srcTree
        /\ srcSha' = srcHead
        /\ events' = Append(events, CloneEv(specs.environment[SourceEnv], SourceEnv, TRUE))
        /\ UNCHANGED <<specs, outage, conc, world, result, obj, wtree, htree, head,
                       isPROpen, prsList, pr, branch, promotedSubjects,
                       beforeHeadRef, idx, dirtied, counters, hist>>
     \/ /\ ~GitAuth(SourceEnv).err
        /\ outage \/ ~CloneAccepts(GitAuth(SourceEnv).cloneURL)
        /\ AbortWith(CloneEv(specs.environment[SourceEnv], SourceEnv, FALSE),
                     tmpDirs \cup {tmpDir}, Append(deferred, tmpDir))

\* Lines 116-126: GitCloneEnvironment of the target Environment at its
\* configured branch.
CloneTarget ==
  /\ pc = "cloneTarget"
  /\ LET tmpDir == TempDirForObj(PromName, 2) IN
     \/ outage /\ Abort(Ev("tempdir", TargetEnv, 0, FALSE))
     \/ /\ AuthFails(TargetEnv)
        /\ AbortWith(Ev("auth", TargetEnv, 0, FALSE),
                     tmpDirs \cup {tmpDir}, Append(deferred, tmpDir))
     \/ /\ ~GitAuth(TargetEnv).err /\ CloneAccepts(GitAuth(TargetEnv).cloneURL)
        /\ pc' = "setup"
        /\ tmpDirs' = tmpDirs \cup {tmpDir}
        /\ deferred' = Append(deferred, tmpDir)
        /\ wtree' = tgtMain
        /\ htree' = tgtMain
        /\ head' = <<>>
        /\ events' = Append(events, CloneEv(specs.environment[TargetEnv], TargetEnv, TRUE))
        /\ UNCHANGED <<specs, outage, conc, world, result, obj, srcW, srcSha, isPROpen,
                       prsList, pr, branch, promotedSubjects, beforeHeadRef, idx,
                       dirtied, counters, hist>>
     \/ /\ ~GitAuth(TargetEnv).err
        /\ outage \/ ~CloneAccepts(GitAuth(TargetEnv).cloneURL)
        /\ AbortWith(CloneEv(specs.environment[TargetEnv], TargetEnv, FALSE),
                     tmpDirs \cup {tmpDir}, Append(deferred, tmpDir))

\* Lines 128-167: NewGitProviderOrgRepository and SetupGitAuthEnvironment of
\* the target Environment.  With a nil provider client the call
\* c.OrgRepositories() at line 188 panics; the deferred calls run.
Setup ==
  /\ pc = "setup"
  /\ \/ /\ ProviderClient(specs.environment[TargetEnv]) # "nil"
        /\ ~GitAuth(TargetEnv).err
        /\ pc' = "list"
        /\ events' = Append(events, Ev("setup", "", 0, TRUE))
        /\ UNCHANGED <<aside, world, result, locals, dirtied, counters, hist>>
     \/ outage /\ Abort(Ev("setup", "", 0, FALSE))
     \/ /\ ProviderClient(specs.environment[TargetEnv]) = "nil"
        /\ pc' = "exit"
        /\ result' = "panic"
        /\ events' = Append(events, Ev("panic", "", 0, FALSE))
        /\ UNCHANGED <<aside, world, locals, dirtied, counters, hist>>
     \/ /\ ProviderClient(specs.environment[TargetEnv]) # "nil"
        /\ AuthFails(TargetEnv)
        /\ Abort(Ev("auth", TargetEnv, 1, FALSE))

\* Lines 169-183: PullRequests().List and the isPROpen loop.
ListPRs ==
  /\ pc = "list"
  /\ \/ LET listed == {n \in 1..Len(prs) : prs[n].open} IN
        /\ prsList' = listed
        /\ isPROpen' = IsPROpen(obj.lastN, listed)
        /\ pc' = IF IsPROpen(obj.lastN, listed) THEN "get" ELSE "checkoutNew"
        /\ events' = Append(events, Ev("list", "", 0, TRUE))
        /\ UNCHANGED <<aside, world, result, obj, srcW, srcSha, wtree, htree, head, pr,
                       branch, promotedSubjects, beforeHeadRef, idx, dirtied,
                       counters, hist>>
     \/ outage /\ Abort(Ev("list", "", 0, FALSE))

\* Lines 188-193: PullRequests().Get of the recorded number.
GetPR ==
  /\ pc = "get"
  /\ \/ /\ obj.lastN \in 1..Len(prs)
        /\ pr' = [number |-> obj.lastN, url |-> WebURL(obj.lastN),
                  head |-> prs[obj.lastN].head]
        /\ branch' = prs[obj.lastN].head
        /\ pc' = "fetch"
        /\ events' = Append(events, Ev("get", "", obj.lastN, TRUE))
        /\ UNCHANGED <<aside, world, result, obj, srcW, srcSha, wtree, htree, head,
                       isPROpen, prsList, promotedSubjects, beforeHeadRef, idx,
                       dirtied, counters, hist>>
     \/ outage /\ Abort(Ev("get", "", obj.lastN, FALSE))

\* Lines 195-201: Fetch of refs/*:refs/*.
Fetch ==
  /\ pc = "fetch"
  /\ \/ /\ pc' = "checkout"
        /\ events' = Append(events, Ev("fetch", "", 0, TRUE))
        /\ UNCHANGED <<aside, world, result, locals, dirtied, counters, hist>>
     \/ outage /\ Abort(Ev("fetch", "", 0, FALSE))

\* Lines 203-208 and 222: forced checkout of the pull request's branch.
CheckoutPRBranch ==
  /\ pc = "checkout"
  /\ \/ /\ branch \in DOMAIN remote
        /\ wtree' = remote[branch].tree
        /\ htree' = remote[branch].tree
        /\ head' = remote[branch].log
        /\ beforeHeadRef' = remote[branch].log
        /\ idx' = 1
        /\ pc' = "copy"
        /\ events' = Append(events, Ev("checkout", "", 0, TRUE))
        /\ UNCHANGED <<aside, world, result, obj, srcW, srcSha, isPROpen, prsList, pr,
                       branch, promotedSubjects, dirtied, counters, hist>>
     \/ outage /\ Abort(Ev("checkout", "", 0, FALSE))

\* Lines 210-217 and 222: a new branch named after the promotion and the
\* time, created from the cloned branch and checked out.  The clock reads
\* the same second as the last reading or a later one; the same second is
\* told apart from a later one only when the remote already has the branch
\* that second names.
CheckoutNewBranch ==
  /\ pc = "checkoutNew"
  /\ \E t \in {now, now + 1} :
       /\ (t = now) => NewBranchName(PromName, now) \in DOMAIN remote
       /\ now' = t
       /\ \/ /\ branch' = NewBranchName(PromName, t)
             /\ beforeHeadRef' = head
             /\ idx' = 1
             /\ pc' = "copy"
             /\ result' = result
             /\ events' = Append(events, Ev("checkoutNew", "", t, TRUE))
          \/ /\ outage
             /\ branch' = NewBranchName(PromName, t)
             /\ pc' = "exit"
             /\ result' = "err"
             /\ events' = Append(events, Ev("checkoutNew", "", t, FALSE))
             /\ UNCHANGED <<beforeHeadRef, idx>>
  /\ UNCHANGED <<aside, envStatus, srcTree, srcHead, tgtMain, remote, prs, stored, obj,
                 srcW, srcSha, wtree, htree, head, isPROpen, prsList, pr,
                 promotedSubjects, dirtied, counters, hist>>


\* The loop at line 232 moves to the next copy operation, or leaves.
NextOp(k) == IF k < NumOps THEN "copy" ELSE "sync"

\* Lines 232-244: SecureJoin of both paths and CopyOperation.
CopyStep ==
  /\ pc = "copy"
  /\ LET op == specs.promotion.copy[idx]
         copySource == SecureJoin(FullPath(SourceEnv), op.source)
         copyTarget == SecureJoin(FullPath(TargetEnv), op.target)
         r == CopyOperation(srcW, wtree,
                            Rel(FullPath(SourceEnv), copySource.path),
                            Rel(FullPath(TargetEnv), copyTarget.path)) IN
     \/ /\ outage \/ copySource.err \/ copyTarget.err
        /\ Abort(Ev("resolve", op.name, idx, FALSE))
     \/ /\ ~copySource.err /\ ~copyTarget.err /\ ~r.err
        /\ wtree' = r.tree
        /\ dirtied' = IF r.tree # wtree THEN dirtied \cup {op.name} ELSE dirtied
        /\ pc' = "status"
        /\ events' = Append(events, Ev("copy", op.name, idx, TRUE))
        /\ UNCHANGED <<aside, world, result, obj, srcW, srcSha, htree, head, isPROpen,
                       prsList, pr, branch, promotedSubjects, beforeHeadRef, idx,
                       counters, hist>>
     \/ /\ ~copySource.err /\ ~copyTarget.err
        /\ outage \/ r.err
        /\ Abort(Ev("copy", op.name, idx, FALSE))

\* Lines 246-256: Worktree.Status and IsClean.
StatusStep ==
  /\ pc = "status"
  /\ \/ /\ pc' = IF IsClean(wtree, htree) THEN NextOp(idx) ELSE "commit"
        /\ idx' = IF IsClean(wtree, htree) THEN idx + 1 ELSE idx
        /\ events' = Append(events, Ev("status", CopyList[idx].name, idx, TRUE))
        /\ UNCHANGED <<aside, world, result, obj, srcW, srcSha, wtree, htree, head,
                       isPROpen, prsList, pr, branch, promotedSubjects,
                       beforeHeadRef, dirtied, counters, hist>>
     \/ outage /\ Abort(Ev("status", CopyList[idx].name, idx, FALSE))

\* A commit that stages nothing: HEAD's tree stays as it was.
Committed_Nothing(worktree, headTree) == headTree

\* Lines 258 and 287: AddGlob(".") stages every change of the worktree and
\* Worktree.Commit records the index: the tree of the new HEAD.
Committed(worktree, headTree) == worktree

\* Lines 257-297: AddGlob("."), the commit message and Worktree.Commit.
CommitStep ==
  /\ pc = "commit"
  /\ \/ /\ head' = Append(head, NewCommit(CopyList[idx], srcSha, attempts))
        /\ htree' = Committed(wtree, htree)
        /\ pc' = "push"
        /\ events' = Append(events, Ev("commit", CopyList[idx].name, idx, TRUE))
        /\ UNCHANGED <<aside, world, result, obj, srcW, srcSha, wtree, isPROpen, prsList,
                       pr, branch, promotedSubjects, beforeHeadRef, idx, dirtied,
                       counters, hist>>
     \/ outage /\ Abort(Ev("commit", CopyList[idx].name, idx, FALSE))

\* Lines 299-309: Push, then the operation's name joins promotedSubjects.
PushStep ==
  /\ pc = "push"
  /\ \/ /\ PushAccepted(remote, branch, head)
        /\ remote' = Pushed(remote, branch, htree, head)
        /\ promotedSubjects' = Append(promotedSubjects, CopyList[idx].name)
        /\ obj' = PromotionReady(obj, SucceededReason, MsgPushed)
        /\ pc' = NextOp(idx)
        /\ idx' = idx + 1
        /\ events' = Append(events, Ev("push", CopyList[idx].name, idx, TRUE))
        /\ UNCHANGED <<aside, envStatus, srcTree, srcHead, tgtMain, prs, stored, now,
                       result, srcW, srcSha, wtree, htree, head, isPROpen, prsList,
                       pr, branch, beforeHeadRef, dirtied, counters, hist>>
     \/ /\ outage \/ ~PushAccepted(remote, branch, head)
        /\ Abort(Ev("push", CopyList[idx].name, idx, FALSE))

\* A reconciler without the in-sync message.
FinalStatus_NoInSync(o, open) == o

\* Lines 347-350: without an open pull request the environments count as in
\* sync.
FinalStatus(o, open) ==
  IF ~open THEN PromotionReady(o, SucceededReason, MsgInSync) ELSE o

\* Lines 313-329: new commits on the branch of an open pull request: Edit
\* of its title.
SyncEdit ==
  /\ pc = "sync"
  /\ SyncCall(beforeHeadRef # head, isPROpen) = "edit"
  /\ \/ /\ pr.number \in 1..Len(prs)
        /\ prs' = [prs EXCEPT ![pr.number].title = PRTitle(promotedSubjects)]
        /\ obj' = FinalStatus(obj, isPROpen)
        /\ pc' = "exit"
        /\ result' = "ok"
        /\ events' = Append(events, Ev("edit", "", pr.number, TRUE))
        /\ UNCHANGED <<aside, envStatus, srcTree, srcHead, tgtMain, remote, stored, now,
                       srcW, srcSha, wtree, htree, head, isPROpen, prsList, pr,
                       branch, promotedSubjects, beforeHeadRef, idx, dirtied,
                       counters, hist>>
     \/ outage /\ Abort(Ev("edit", "", pr.number, FALSE))

\* Lines 313-321 and 330-342: new commits and no open pull request: Create
\* from the branch against the branch of the target Environment's
\* Source.Reference.  Line 331 reads Reference.Branch through the pointer:
\* without a Reference the read panics before Create is called, and the
\* deferred calls run.
SyncCreate ==
  /\ pc = "sync"
  /\ SyncCall(beforeHeadRef # head, isPROpen) = "create"
  /\ \/ LET n == Len(prs) + 1
            reference == specs.environment[TargetEnv].reference IN
        /\ reference # NoReference
        /\ prs' = Append(prs, [number |-> n, head |-> branch,
                               base |-> reference.branch,
                               title |-> PRTitle(promotedSubjects), open |-> TRUE])
        /\ pr' = [number |-> n, url |-> WebURL(n), head |-> branch]
        /\ isPROpen' = TRUE
        /\ obj' = FinalStatus(
                    [PromotionReady(obj, SucceededReason, MsgCreated)
                       EXCEPT !.lastN = n, !.lastURL = WebURL(n)], TRUE)
        /\ pc' = "exit"
        /\ result' = "ok"
        /\ events' = Append(events, Ev("create", "", n, TRUE))
        /\ UNCHANGED <<aside, envStatus, srcTree, srcHead, tgtMain, remote, stored, now,
                       srcW, srcSha, wtree, htree, head, prsList, branch,
                       promotedSubjects, beforeHeadRef, idx, dirtied, counters,
                       hist>>
     \/ /\ specs.environment[TargetEnv].reference # NoReference
        /\ outage
        /\ Abort(Ev("create", "", 0, FALSE))
     \/ /\ specs.environment[TargetEnv].reference = NoReference
        /\ pc' = "exit"
        /\ result' = "panic"
        /\ events' = Append(events, Ev("panic", "", 0, FALSE))
        /\ UNCHANGED <<aside, world, locals, dirtied, counters, hist>>

\* Lines 313-319 and 343-350: no new commit.
SyncUnchanged ==
  /\ pc = "sync"
  /\ SyncCall(beforeHeadRef # head, isPROpen) = "none"
  /\ obj' = FinalStatus(PromotionReady(obj, SucceededReason, MsgOpen), isPROpen)
  /\ pc' = "exit"
  /\ result' = "ok"
  /\ UNCHANGED <<aside, world, srcW, srcSha, wtree, htree, head, isPROpen, prsList, pr,
                 branch, promotedSubjects, beforeHeadRef, idx, events, dirtied,
                 counters, hist>>

\* The deferred status update of line 72, among the deferred removals.
DeferredStatusUpdate == [obj |-> PromName, k |-> 0]

\* Deferred calls that run in the order of their defer statements.
Unwind_InOrder(defs) == defs

\* Deferred calls run last-in-first-out when Reconcile returns.
Unwind(defs) == [k \in 1..Len(defs) |-> defs[Len(defs) + 1 - k]]

\* Lines 72, 109 and 121: the deferred calls of an attempt in the order in
\* which they run: the status update was deferred first, then the removal
\* of each temporary directory as it was made.
Deferred(removals) == Unwind(<<DeferredStatusUpdate>> \o removals)

\* The temporary directories on disk when the deferred status update runs.
RECURSIVE DirsAtWrite(_, _)
DirsAtWrite(calls, dirs) ==
  IF calls = <<>> \/ Head(calls) = DeferredStatusUpdate THEN dirs
  ELSE DirsAtWrite(Tail(calls), dirs \ {Head(calls)})

\* A status write that does not store the pull request's number.
StatusUpdate_LoseNumber(sp, o) ==
  [status |-> [o EXCEPT !.lastN = 0, !.lastURL = NoURL], specs |-> sp]

\* A status write that replaces the stored object by the status alone.
StatusUpdate_DropSpecs(sp, o) ==
  [status |-> o, specs |-> [sp EXCEPT !.promotion.copy = <<>>]]

\* Line 75: r.Status().Update writes the status subresource of the
\* Promotion: the stored specs stay.
StatusUpdate(sp, o) == [status |-> o, specs |-> sp]

\* A deferred function that leaves observedGeneration as it was read.
ObservedGeneration_Stale(o) == o

\* Line 73: the deferred function sets Status.ObservedGeneration to the
\* generation of the object.
ObservedGeneration(o) == [o EXCEPT !.observedGeneration = Generation]

\* Lines 72-78, 109 and 121, deferred: the workspaces are removed and the
\* status is written; a failed write is logged and nothing else.
Exit ==
  /\ pc = "exit"
  /\ \E written \in (IF outage THEN BOOLEAN ELSE {TRUE}) :
       LET w == StatusUpdate(specs, ObservedGeneration(obj))
       IN  /\ stored' = IF written THEN w.status ELSE stored
           /\ specs' = IF written THEN w.specs ELSE specs
  /\ tmpDirs' = RemoveAll(tmpDirs, deferred)
  /\ deferred' = <<>>
  /\ hist' = IF result = "err" /\ promotedSubjects # <<>>
             THEN [outcome |-> "err", pushed |-> promotedSubjects,
                   failed |-> events[Len(events)].op, quiet |-> TRUE,
                   clean |-> DirsAtWrite(Deferred(deferred), tmpDirs) = {}]
             ELSE [outcome |-> result, pushed |-> <<>>, failed |-> "",
                   quiet |-> TRUE,
                   clean |-> DirsAtWrite(Deferred(deferred), tmpDirs) = {}]
  /\ pc' = "idle"
  /\ result' = "none"
  /\ obj' = InitStatus
  /\ srcW' = EmptyTree /\ srcSha' = 0
  /\ wtree' = EmptyTree /\ htree' = EmptyTree /\ head' = <<>>
  /\ isPROpen' = FALSE /\ prsList' = {} /\ pr' = NoPR /\ branch' = NoBranch
  /\ promotedSubjects' = <<>> /\ beforeHeadRef' = <<>> /\ idx' = 0
  /\ events' = <<>> /\ dirtied' = {}
  /\ UNCHANGED <<outage, conc, envStatus, srcTree, srcHead, tgtMain, remote, prs, now,
                 counters>>

(***************************************************************************)
(* The environment of the Promotion reconciler.  Each of these happens     *)
(* between two attempts: an attempt reads the Environments, the source     *)
(* repository and the list of pull requests once each, so a change during  *)
(* an attempt is seen as a change before it or after it.                   *)
(***************************************************************************)
\* repo.Head of a clone of Environment e's branch.  Nothing moves the
\* target's configured branch: pull requests are not merged here.
HeadCommit(e) == IF e = SourceEnv THEN srcHead ELSE 1

\* An Environment status whose failed attempt is marked not ready.
EnvironmentStatus_NotReady(st, cloned, commit) ==
  IF cloned THEN EnvironmentReady(st, commit)
  ELSE [st EXCEPT !.ready = FALSE]

\* Lines 76-106: the status object when Reconcile returns: a failed call
\* returns before the object is touched.
EnvironmentStatus(st, cloned, commit) ==
  IF cloned THEN EnvironmentReady(st, commit) ELSE st

\* EnvironmentReconciler.Reconcile: a temporary directory, whose removal is
\* deferred, and a clone into it; a successful clone makes the Environment
\* ready with the head it read, a failed call leaves its status alone.  The
\* deferred status update may fail, which is logged.
EnvironmentReconcile(e) ==
  /\ pc = "idle"
  /\ e \in specs.present
  /\ LET tmpDir == TempDirForObj(e, 1)
         outcomes == IF outage THEN BOOLEAN ELSE {TRUE}
         auth == GitAuth(e)
         canClone == ~auth.err /\ CloneAccepts(auth.cloneURL)
         st == [ready |-> envReady[e], observedCommitHash |-> envObserved[e]] IN
     \E made \in outcomes, written \in outcomes,
        ok \in {b \in BOOLEAN : (b => canClone) /\ (~b => outage \/ ~canClone)} :
       LET new == IF written THEN EnvironmentStatus(st, made /\ ok, HeadCommit(e))
                  ELSE st IN
         /\ envReady' = [envReady EXCEPT ![e] = new.ready]
         /\ envObserved' = [envObserved EXCEPT ![e] = new.observedCommitHash]
         /\ tmpDirs' = IF made THEN RemoveAll(tmpDirs \cup {tmpDir}, <<tmpDir>>)
                       ELSE tmpDirs
  /\ UNCHANGED <<deferred, specs, outage, conc, srcTree, srcHead, tgtMain, remote, prs, stored, now, pc, result,
                 locals, events, dirtied, counters, hist>>

\* The requests the controller of lines 197-201 gets for Environment e: the
\* object was created, and an attempt that returned an error is retried.
\* Reconcile returns ctrl.Result{} at line 106: a successful attempt asks for
\* no later one.
EnvironmentRequest(e) ==
  /\ ~envReady[e]
  /\ EnvironmentReconcile(e)

\* A commit that writes one file lands on the source Environment's branch.
\* The commits before the Environment's first clone are in the tree that
\* Init chooses.
SourceChange ==
  /\ pc = "idle"
  /\ envReady[SourceEnv]
  /\ srcChanges < MaxSourceChanges
  /\ srcChanges' = srcChanges + 1
  /\ \E f \in Files, c \in Contents :
       /\ c # srcTree[f]
       /\ srcTree' = [srcTree EXCEPT ![f] = c]
  /\ srcHead' = srcHead + 1
  /\ hist' = [hist EXCEPT !.quiet = FALSE]
  /\ UNCHANGED <<aside, envStatus, tgtMain, remote, prs, stored, now, pc, result, locals,
                 events, dirtied, attempts>>

\* A pull request is closed at the provider.
ClosePR(n) ==
  /\ pc = "idle"
  /\ n \in 1..Len(prs)
  /\ prs[n].open
  /\ prs' = [prs EXCEPT ![n].open = FALSE]
  /\ hist' = [hist EXCEPT !.quiet = FALSE]
  /\ UNCHANGED <<aside, envStatus, srcTree, srcHead, tgtMain, remote, stored, now, pc,
                 result, locals, events, dirtied, counters>>

Next ==
  \/ Begin
  \/ CloneSource
  \/ CloneTarget
  \/ Setup
  \/ ListPRs
  \/ GetPR
  \/ Fetch
  \/ CheckoutPRBranch
  \/ CheckoutNewBranch
  \/ CopyStep
  \/ StatusStep
  \/ CommitStep
  \/ PushStep
  \/ SyncEdit
  \/ SyncCreate
  \/ SyncUnchanged
  \/ Exit
  \/ \E e \in Envs : EnvironmentRequest(e)
  \/ SourceChange
  \/ \E n \in 1..MaxAttempts : ClosePR(n)

Spec == Init /\ [][Next]_vars

(***************************************************************************)
(* Fair re-delivery.  The calls stop failing at some point between two     *)
(* attempts, and the delivery mechanism keeps starting attempts (an error  *)
(* is retried, a wait is requeued after 10 s, a success after 300 s) and   *)
(* lets a started attempt run to its return.                               *)
(***************************************************************************)
Recover ==
  /\ pc = "idle"
  /\ outage
  /\ outage' = FALSE
  /\ UNCHANGED <<world, pc, result, locals, events, dirtied, counters, hist,
                 workspaces, specs, conc>>

Attempt ==
  \/ Begin
  \/ CloneSource
  \/ CloneTarget
  \/ Setup
  \/ ListPRs
  \/ GetPR
  \/ Fetch
  \/ CheckoutPRBranch
  \/ CheckoutNewBranch
  \/ CopyStep
  \/ StatusStep
  \/ CommitStep
  \/ PushStep
  \/ SyncEdit
  \/ SyncCreate
  \/ SyncUnchanged
  \/ Exit

LiveNext ==
  \/ Next
  \/ Recover

LiveSpec == Init /\ [][LiveNext]_vars /\ WF_vars(Attempt)


(***************************************************************************)
(* Reading the calls of the running attempt.                               *)
(***************************************************************************)
\* Positions of the calls of kind e, and of those that returned no error.
Calls(e) == {k \in 1..Len(events) : events[k].e = e}
Done(e) == {k \in Calls(e) : events[k].ok}
Mutations == Calls("create") \cup Calls("edit")

\* The recorded pull request is open at the provider.  Pull requests change
\* only between attempts and by this attempt's Create, so before Create
\* this is what List returned.
RecordedOpen ==
  /\ stored.lastN # 0
  /\ stored.lastN \in 1..Len(prs)
  /\ prs[stored.lastN].open

\* The attempt ran its copy loop to the end.
LoopDone == pc \in {"sync", "exit"} /\ idx > NumOps

Range(q) == {q[k] : k \in 1..Len(q)}

(***************************************************************************)
(* C1: idempotence.  Of two consecutive attempts that both return without  *)
(* error, with no change to the source repository, the target repository   *)
(* or the pull requests between them, the second makes no commit, no push, *)
(* no Create and no Edit call, and ends with the message "in sync, nothing *)
(* to promote" when no request is open and "A pull request is open for     *)
(* review." when one is.                                                   *)
(***************************************************************************)
C1_Idempotence ==
  (pc = "exit" /\ result = "ok" /\ hist.outcome = "ok" /\ hist.quiet)
    => /\ Calls("commit") = {}
       /\ Calls("push") = {}
       /\ Mutations = {}
       /\ obj.ready.message =
            IF \E n \in 1..Len(prs) : prs[n].open THEN MsgOpen ELSE MsgInSync

(***************************************************************************)
(* C2: resumption after a failure in the middle of the list.  When an      *)
(* attempt has committed and pushed some operations and then failed at a   *)
(* later one, the next attempt, if it returns without error and nothing    *)
(* changed in between, commits none of the operations already pushed and   *)
(* at most the one that failed, also when no pull request was open or      *)
(* recorded before the first attempt.                                      *)
(***************************************************************************)
C2_Resumption ==
  (/\ pc = "exit" /\ result = "ok"
   /\ hist.outcome = "err" /\ hist.pushed # <<>> /\ hist.quiet
   /\ hist.failed \in OpNames \ Range(hist.pushed))
    => \A k \in Calls("commit") :
         /\ events[k].op \notin Range(hist.pushed)
         /\ events[k].op = hist.failed

(***************************************************************************)
(* C3: failure reporting.  An attempt that aborts on a failed step ends    *)
(* with the readiness condition False (with reason and message) in the     *)
(* status it writes; it never leaves or writes readiness True.             *)
(***************************************************************************)
C3_FailureReporting ==
  (pc = "exit" /\ result = "err") => obj.ready.status = "False"


(***************************************************************************)
(* C4: request recreate.  In an attempt whose recorded                     *)
(* lastPullRequestNumber is non-zero but not among the open requests       *)
(* listed, no Get and no Edit is ever called; once the copy loop has ended *)
(* with at least one commit, Create is called, its head is the branch      *)
(* named in this attempt (which the remote did not have before this        *)
(* attempt pushed it), and the status the attempt writes holds the number  *)
(* and URL of the request Create returned.  A step is reached only when    *)
(* the steps before it returned no error.                                  *)
(***************************************************************************)
StaleRecorded == stored.lastN # 0 /\ ~RecordedOpen /\ Done("list") # {}

C4_RequestRecreate ==
  StaleRecorded =>
    /\ Calls("get") = {} /\ Calls("edit") = {}
    /\ (pc = "exit" /\ LoopDone /\ Done("commit") # {}) =>
         /\ Cardinality(Calls("create")) = 1
         /\ \E k \in Done("checkoutNew") :
              branch = NewBranchName(PromName, events[k].n)
         /\ \A b \in DOMAIN remote :
              b = branch => \A j \in 1..Len(remote[b].log) :
                              remote[b].log[j].id = attempts
         /\ \A k \in Done("create") :
              /\ prs[events[k].n].head = branch
              /\ prs[events[k].n].open
              /\ events[k].n # stored.lastN
              /\ obj.lastN = events[k].n
              /\ obj.lastURL = WebURL(events[k].n)

C4_Witness ==
  /\ pc = "exit" /\ StaleRecorded /\ LoopDone
  /\ Done("commit") # {} /\ Done("create") # {}


(***************************************************************************)
(* C5: SyncingRequest with a changed head.  When the copy loop has ended   *)
(* and the branch head differs from the head before the loop, exactly one  *)
(* pull request mutation is issued: Edit of the title of the resumed       *)
(* request when the recorded request was open at ResolvingRequest,         *)
(* otherwise Create with head = the branch acquired in this attempt and    *)
(* base = the target Environment's branch.  lastPullRequestNumber and      *)
(* lastPullRequestURL are overwritten only after a Create, with the values *)
(* it returned.                                                            *)
(***************************************************************************)
C5_SyncChangedHead ==
  /\ Cardinality(Mutations) <= 1
  /\ (pc = "exit" /\ LoopDone /\ head # beforeHeadRef) =>
       /\ Cardinality(Mutations) = 1
       /\ IF RecordedOpen
          THEN /\ \A k \in Mutations :
                    events[k].e = "edit" /\ events[k].n = stored.lastN
               /\ \A k \in Done("edit") :
                    prs[events[k].n].title = PRTitle(promotedSubjects)
          ELSE /\ \A k \in Mutations : events[k].e = "create"
               /\ \A k \in Done("create") :
                    /\ prs[events[k].n].head = branch
                    /\ prs[events[k].n].base = TargetBranch
                    /\ obj.lastN = events[k].n
                    /\ obj.lastURL = WebURL(events[k].n)
  /\ (pc # "idle" /\ (obj.lastN # stored.lastN \/ obj.lastURL # stored.lastURL)) =>
       \E k \in Done("create") :
         obj.lastN = events[k].n /\ obj.lastURL = WebURL(events[k].n)

C5_WitnessEdit ==
  /\ pc = "exit" /\ LoopDone /\ head # beforeHeadRef
  /\ RecordedOpen /\ Done("edit") # {}

(***************************************************************************)
(* C6: SyncingRequest with an unchanged head.  When the copy loop has      *)
(* ended and the branch head is the one before the loop, no Create and no  *)
(* Edit is issued, lastPullRequestNumber and lastPullRequestURL are left   *)
(* unchanged, and the attempt ends with readiness True and the message     *)
(* "A pull request is open for review." when the recorded request is open, *)
(* "Source and target environments are in sync, nothing to promote."       *)
(* when it is not.                                                         *)
(***************************************************************************)
C6_SyncUnchangedHead ==
  (pc = "exit" /\ LoopDone /\ head = beforeHeadRef) =>
    /\ Mutations = {}
    /\ result = "ok"
    /\ obj.lastN = stored.lastN
    /\ obj.lastURL = stored.lastURL
    /\ obj.ready.status = "True"
    /\ obj.ready.message = IF RecordedOpen THEN MsgOpen ELSE MsgInSync

C6_WitnessOpen ==
  /\ pc = "exit" /\ LoopDone /\ head = beforeHeadRef
  /\ RecordedOpen /\ obj.ready.message = MsgOpen


(***************************************************************************)
(* C7: order preservation and attribution.  The copy operations are        *)
(* applied in declared order; when all of [A, B, C] have been applied and  *)
(* only B made the target worktree differ, the attempt has made exactly    *)
(* one commit, the message of that commit names B and no other operation,  *)
(* and the title of the request created or edited in the attempt lists     *)
(* only B.                                                                 *)
(***************************************************************************)
\* The commits this attempt added to the branch.
NewCommits == SubSeq(head, Len(beforeHeadRef) + 1, Len(head))

C7_OrderAndAttribution ==
  /\ \A k \in Calls("copy") :
       /\ events[k].op = CopyList[events[k].n].name
       /\ Cardinality({j \in Calls("copy") : j <= k}) = events[k].n
  /\ (Cardinality(Done("copy")) = NumOps /\ dirtied = {"B"}) =>
       /\ Cardinality(Calls("commit")) = 1
       /\ Len(NewCommits) = 1
       /\ NewCommits[1].message.subject = "B"
       /\ \A k \in Done("create") \cup Done("edit") :
            prs[events[k].n].title.subjects = <<"B">>

C7_Witness ==
  /\ Cardinality(Done("copy")) = NumOps /\ dirtied = {"B"}
  /\ Done("create") # {}

(***************************************************************************)
(* C8: the Change Ladder step.  After each copy the worktree status is     *)
(* inspected; a clean operation is followed by no stage, commit or push    *)
(* and is not recorded as promoted; a dirty operation gets exactly one     *)
(* commit and one push before the next operation's copy begins, and its    *)
(* name is recorded as promoted only once the push has succeeded.  In an   *)
(* attempt that completes, the commits, the pushes and the promoted names  *)
(* are equally many.                                                       *)
(***************************************************************************)
OpsOf(e) == {events[k].op : k \in Done(e)}

C8_ChangeLadder ==
  /\ \A k \in Calls("commit") :
       /\ k > 1 /\ events[k - 1].e = "status" /\ events[k - 1].ok
       /\ events[k - 1].op = events[k].op
       /\ events[k].op \in dirtied
       /\ Cardinality({j \in Calls("commit") : events[j].op = events[k].op}) = 1
  /\ \A k \in Calls("push") :
       /\ k > 1 /\ events[k - 1].e = "commit" /\ events[k - 1].ok
       /\ events[k - 1].op = events[k].op
       /\ Cardinality({j \in Calls("push") : events[j].op = events[k].op}) = 1
  /\ \A k \in Calls("copy") :
       \A i \in 1..(events[k].n - 1) :
         LET name == CopyList[i].name IN
           IF name \in dirtied
           THEN name \in OpsOf("commit") /\ name \in OpsOf("push")
           ELSE /\ name \in OpsOf("status")
                /\ \A j \in Calls("commit") \cup Calls("push") : events[j].op # name
  /\ Range(promotedSubjects) = OpsOf("push")
  /\ Len(promotedSubjects) = Cardinality(Done("push"))
  /\ (pc = "exit" /\ result = "ok") =>
       /\ Cardinality(Done("commit")) = Cardinality(Done("push"))
       /\ Cardinality(Done("push")) = Len(promotedSubjects)
       /\ Cardinality(Calls("commit")) = Cardinality(Done("commit"))
       /\ OpsOf("commit") = dirtied

C8_Witness ==
  /\ pc = "exit" /\ result = "ok"
  /\ Cardinality(Done("push")) = 2
  /\ Cardinality(dirtied) = 2

(***************************************************************************)
(* C9: durability of earlier operations.  At every point of an attempt at  *)
(* most one commit of the attempt is missing from the remote branch (the   *)
(* one just made, whose push has not returned), and none is missing when a *)
(* copy operation starts; so wherever the attempt aborts, the commits of   *)
(* the operations before the failing one are on the remote branch.         *)
(***************************************************************************)
OnRemote(k) ==
  /\ branch \in DOMAIN remote
  /\ k <= Len(remote[branch].log)
  /\ remote[branch].log[k] = head[k]

Missing == {k \in (Len(beforeHeadRef) + 1)..Len(head) : ~OnRemote(k)}

C9_Durability ==
  (pc \in {"copy", "status", "commit", "push", "sync", "exit"} /\ idx >= 1) =>
    /\ Cardinality(Missing) <= 1
    /\ pc \in {"copy", "status", "commit", "sync"} => Missing = {}
    /\ Missing # {} => /\ Missing = {Len(head)}
                       /\ events[Len(events)].e = "push" => ~events[Len(events)].ok

C9_Witness ==
  /\ pc = "exit" /\ result = "err"
  /\ Len(NewCommits) = 2
  /\ Missing = {Len(head)}


(***************************************************************************)
(* C10: branch acquisition is decided from the live remote state of the    *)
(* attempt.  isOpen holds exactly when the recorded lastPullRequestNumber  *)
(* is non-zero and is the number of a request in the list fetched in this  *)
(* attempt.  When isOpen, the attempt gets that request, then fetches the  *)
(* remote refs, then checks out the request's head branch as the remote    *)
(* has it, and creates no branch.  When not isOpen, it makes no Get call   *)
(* and creates and checks out a branch named                               *)
(* promotion/<promotion-name>-<timestamp> from the cloned target branch.   *)
(***************************************************************************)
\* The call that follows the call at position k, if the attempt made one.
FollowedBy(k, e) == k < Len(events) => events[k + 1].e = e

C10_BranchAcquisition ==
  (Done("list") # {} /\ Done("create") = {}) =>
    /\ prsList = {n \in 1..Len(prs) : prs[n].open}
    /\ isPROpen <=> (stored.lastN # 0 /\ stored.lastN \in prsList)
    /\ IF isPROpen
       THEN /\ Calls("checkoutNew") = {}
            /\ \A k \in Done("list") : FollowedBy(k, "get")
            /\ \A k \in Calls("get") : events[k].n = stored.lastN
            /\ \A k \in Done("get") : FollowedBy(k, "fetch")
            /\ \A k \in Done("fetch") : FollowedBy(k, "checkout")
            /\ \A k \in Done("checkout") :
                 /\ branch = prs[stored.lastN].head
                 /\ branch \in DOMAIN remote
                 /\ beforeHeadRef = SubSeq(remote[branch].log, 1, Len(beforeHeadRef))
                 /\ k = Len(events) =>
                      wtree = remote[branch].tree /\ head = remote[branch].log
       ELSE /\ Calls("get") = {} /\ Calls("fetch") = {} /\ Calls("checkout") = {}
            /\ \A k \in Done("list") : FollowedBy(k, "checkoutNew")
            /\ \A k \in Done("checkoutNew") :
                 /\ branch.prefix = "promotion"
                 /\ branch.prom = PromName
                 /\ branch.ts = now /\ branch.ts = events[k].n
                 /\ beforeHeadRef = <<>>
                 /\ k = Len(events) => wtree = tgtMain /\ head = <<>>

C10_WitnessOpen ==
  /\ isPROpen /\ Done("checkout") # {} /\ Done("create") = {}
  /\ pc = "copy" /\ idx = 1


(***************************************************************************)
(* C11: readiness wait.  An attempt that reads the source or the target    *)
(* Environment as not ready returns no error and a requeue delay of 10     *)
(* seconds; it has issued no call (no clone, no provider call, no          *)
(* checkout, copy, commit or push) and the status it is about to write     *)
(* holds the readiness condition, lastPullRequestNumber and                *)
(* lastPullRequestURL that the store has.  Every clone an attempt makes is *)
(* of an Environment that is ready.                                        *)
(***************************************************************************)
C11_ReadinessWait ==
  /\ (pc # "idle" /\ ~EnvironmentsReady(envReady)) =>
       /\ pc = "exit" /\ result = "wait"
       /\ Returned(result) = [requeueAfter |-> 10, err |-> FALSE]
       /\ events = <<>>
       /\ obj.ready = stored.ready
       /\ obj.lastN = stored.lastN
       /\ obj.lastURL = stored.lastURL
  /\ result = "wait" => ~EnvironmentsReady(envReady)
  /\ \A k \in Calls("clone") : envReady[events[k].op]

C11_Witness ==
  /\ pc = "exit" /\ result = "wait"
  /\ envReady[SourceEnv] /\ ~envReady[TargetEnv]
  /\ attempts = 2


(***************************************************************************)
(* C12: workspace release on every exit path.  Every temporary directory   *)
(* made during an attempt has its removal deferred from the moment it      *)
(* exists, one directory per GitCloneEnvironment call (a clone, or the     *)
(* credentials that failed before it), and between attempts (after         *)
(* a Promotion attempt or an Environment attempt has returned, with        *)
(* success, with an error from any step, or with the readiness wait) no    *)
(* temporary directory is left.                                            *)
(***************************************************************************)
C12_WorkspaceRelease ==
  /\ tmpDirs = Range(deferred)
  /\ Cardinality(tmpDirs) =
       Cardinality(Calls("clone") \cup {k \in Calls("auth") : events[k].n = 0})
  /\ pc = "idle" => tmpDirs = {}
  /\ (pc = "exit" /\ result = "wait") => tmpDirs = {}

C12_Witness ==
  /\ pc = "idle" /\ tmpDirs = {}
  /\ hist.outcome = "err" /\ hist.pushed # <<>>
  /\ envReady[SourceEnv] /\ envReady[TargetEnv]


(***************************************************************************)
(* Promotions whose last copy operation names a path that climbs above the *)
(* root of its Environment.                                                *)
(***************************************************************************)
EscapingCopyLists ==
  { [CopyList EXCEPT ![NumOps].source = <<"..", "..", "t">>],
    [CopyList EXCEPT ![NumOps].target = <<"..", "..", "t">>],
    [CopyList EXCEPT ![NumOps].source = <<"..", "..", "etc", "passwd">>] }

PathInit ==
  \E copy \in EscapingCopyLists :
    InitWith(StoreSpecs(copy, [branch |-> TargetBranch]))

PathSpec == PathInit /\ [][Next]_vars

\* The path, read from depth components below its root, climbs above it.
RECURSIVE Climbs(_, _)
Climbs(depth, path) ==
  IF path = <<>> THEN FALSE
  ELSE IF Head(path) = ".." THEN depth = 0 \/ Climbs(depth - 1, Tail(path))
       ELSE Climbs(depth + 1, Tail(path))

Escapes(op) == Climbs(0, op.source) \/ Climbs(0, op.target)

\* The calls made for a copy operation.
OfOperation(k) == events[k].e \in {"resolve", "copy", "status", "commit", "push"}

(***************************************************************************)
(* C13: path confinement by rejection.  For a copy operation whose source  *)
(* or target climbs above its Environment's root, the only call the        *)
(* attempt makes is the path resolution, and it fails (so the operation    *)
(* reads and writes no file); and the target path handed to any copy lies  *)
(* below the target Environment's root.                                    *)
(***************************************************************************)
C13_PathRejection ==
  \A k \in 1..Len(events) :
    OfOperation(k) =>
      LET op == specs.promotion.copy[events[k].n] IN
        /\ Escapes(op) => events[k].e = "resolve" /\ ~events[k].ok
        /\ IsPrefix(FullPath(TargetEnv),
                    SecureJoin(FullPath(TargetEnv), op.target).path)


(***************************************************************************)
(* C14: drift eventually yields a pull request.  The tree that the copy    *)
(* operations make of the target branch out of the source branch.          *)
(***************************************************************************)
RECURSIVE Promoted(_, _)
Promoted(k, tree) ==
  IF k > NumOps THEN tree
  ELSE LET r == CopyOperation(srcTree, tree, CopyList[k].source, CopyList[k].target)
       IN  IF r.err THEN tree ELSE Promoted(k + 1, r.tree)

Drift == Promoted(1, tgtMain) # tgtMain

\* An operation of the running attempt has failed.
OperationFailed == pc = "exit" /\ result = "err"

(***************************************************************************)
(* C14: once the calls have stopped failing, from every point between two  *)
(* attempts at which both Environments are ready, the declared source      *)
(* paths differ from the target's and an attempt can still be delivered,   *)
(* fair delivery leads to a state in which the recorded                    *)
(* lastPullRequestNumber names an open pull request, unless the drift has  *)
(* gone or an operation has failed after all.                              *)
(***************************************************************************)
C14_DriftYieldsRequest ==
  (/\ pc = "idle" /\ ~outage /\ attempts < MaxAttempts
   /\ EnvironmentsReady(envReady) /\ Drift)
    ~> (RecordedOpen \/ ~Drift \/ OperationFailed)

C14_Witness ==
  /\ pc = "exit" /\ ~outage /\ result = "ok"
  /\ Done("create") # {} /\ Drift
  /\ Len(prs) = 2


(***************************************************************************)
(* A target Environment that declares no reference.  No pull request is    *)
(* ever created for it, so the steps that resume or close one never run.   *)
(***************************************************************************)
InitNoRef == InitWith(StoreSpecs(CopyList, NoReference))

NextNoRef ==
  \/ Begin
  \/ CloneSource
  \/ CloneTarget
  \/ Setup
  \/ ListPRs
  \/ CheckoutNewBranch
  \/ CopyStep
  \/ StatusStep
  \/ CommitStep
  \/ PushStep
  \/ SyncCreate
  \/ SyncUnchanged
  \/ Exit
  \/ \E e \in Envs : EnvironmentRequest(e)
  \/ SourceChange

SpecNoRef == InitNoRef /\ [][NextNoRef]_vars

(***************************************************************************)
(* C15: default branch.  With a target Environment that declares no        *)
(* reference, the clone of the target asks for branch master, and an       *)
(* attempt that has ended its copy loop with new commits and no open       *)
(* request does not crash: the request it creates has base master.         *)
(***************************************************************************)
C15_DefaultBranch ==
  specs.environment[TargetEnv].reference = NoReference =>
    /\ \A k \in Calls("clone") :
         events[k].op = TargetEnv => events[k].ref = DefaultBranch
    /\ (pc = "exit" /\ LoopDone /\ head # beforeHeadRef) =>
         /\ result # "panic"
         /\ \A k \in Done("create") : prs[events[k].n].base = DefaultBranch


(***************************************************************************)
(* C16: status-only writes.  No step of a Promotion attempt changes the    *)
(* spec of the Promotion, the spec or the readiness of an Environment, or  *)
(* the set of objects; the stored Promotion status changes only at the     *)
(* deferred status write, and it holds observedGeneration, the readiness   *)
(* condition, lastPullRequestNumber and lastPullRequestURL, no other       *)
(* field.                                                                  *)
(***************************************************************************)
AttemptStep == pc # "idle" \/ pc' # "idle"

C16_StatusOnlyWrites ==
  [][AttemptStep =>
       /\ specs' = specs
       /\ envStatus' = envStatus
       /\ DOMAIN stored' = {"observedGeneration", "ready", "lastN", "lastURL"}
       /\ stored' # stored => pc = "exit"]_vars

C16_Witness ==
  /\ pc = "idle"
  /\ stored.lastN # 0 /\ stored.ready.status = "True"
  /\ stored.observedGeneration = Generation
  /\ specs = StoreSpecs(CopyList, [branch |-> TargetBranch])


(***************************************************************************)
(* C17: any step failure aborts the rest of the attempt.  A call that      *)
(* returned an error is the last call of its attempt: the attempt is at    *)
(* its return, with that error, no copy, commit, push, Create or Edit      *)
(* follows, and the lastPullRequestNumber and lastPullRequestURL it is     *)
(* about to write are those the store had when the attempt started.        *)
(***************************************************************************)
Failed == {k \in 1..Len(events) : ~events[k].ok}

C17_FailureAborts ==
  \A k \in Failed :
    /\ k = Len(events)
    /\ pc = "exit" /\ result = "err"
    /\ Returned(result).err
    /\ obj.lastN = stored.lastN
    /\ obj.lastURL = stored.lastURL

C17_Witness ==
  /\ pc = "exit" /\ result = "err"
  /\ Done("push") # {} /\ Failed \cap Calls("create") # {}
  /\ stored.lastN # 0


(***************************************************************************)
(* The copy operation the loop is at, with its paths as the trees name     *)
(* them, and what CopyOperation returns for it.                            *)
(***************************************************************************)
AtCopy == pc = "copy"
CurrentOp == specs.promotion.copy[idx]
CurrentSource ==
  Rel(FullPath(SourceEnv), SecureJoin(FullPath(SourceEnv), CurrentOp.source).path)
CurrentTarget ==
  Rel(FullPath(TargetEnv), SecureJoin(FullPath(TargetEnv), CurrentOp.target).path)
CurrentCopy == CopyOperation(srcW, wtree, CurrentSource, CurrentTarget)

\* The files of the source below the path p.
Below(tree, p) == {g \in Files : tree[g] # Absent /\ IsPrefix(p, g)}

\* The content of the source path src stands at dst in tree.
PlacedAt(tree, src, dst) ==
  \A g \in Below(srcW, src) :
    LET f == dst \o SubSeq(g, Len(src) + 1, Len(g)) IN
      f \in Files /\ tree[f] = srcW[g]

(***************************************************************************)
(* C18: copy to a target path that does not exist yet.  When the source of *)
(* the copy operation exists and its target path does not, CopyOperation   *)
(* returns no error and the content of the source stands at the literal    *)
(* target path.                                                            *)
(***************************************************************************)
C18_CopyToNewTarget ==
  (AtCopy /\ Exists(srcW, CurrentSource) /\ ~Exists(wtree, CurrentTarget)) =>
    /\ ~CurrentCopy.err
    /\ PlacedAt(CurrentCopy.tree, CurrentSource, CurrentTarget)


\* The paths the current copy operation writes: for a directory, the target
\* path joined with each source file's relative path; for a file, the target
\* file, inside the target when that is a directory.
FileTarget ==
  IF IsDir(wtree, CurrentTarget) THEN Append(CurrentTarget, Base(CurrentSource))
  ELSE CurrentTarget
Overwritten ==
  IF IsDir(srcW, CurrentSource)
  THEN {CurrentTarget \o SubSeq(g, Len(CurrentSource) + 1, Len(g)) :
          g \in Below(srcW, CurrentSource)}
  ELSE {FileTarget}

(***************************************************************************)
(* C19: directory versus file copy.  A copy step that succeeds leaves, for *)
(* a source directory, every file of it under the target path at the same  *)
(* relative path; for a source file whose target is an existing directory, *)
(* the file inside that directory under its base name; every other file of *)
(* the target worktree as it was; and HEAD, its tree, the remote branches   *)
(* and the pull requests untouched.                                        *)
(***************************************************************************)
C19_CopyKinds ==
  [][(pc = "copy" /\ pc' = "status") =>
       /\ IsDir(srcW, CurrentSource) =>
            PlacedAt(wtree', CurrentSource, CurrentTarget)
       /\ (~IsDir(srcW, CurrentSource) /\ IsDir(wtree, CurrentTarget)) =>
            /\ Append(CurrentTarget, Base(CurrentSource)) \in Files
            /\ wtree'[Append(CurrentTarget, Base(CurrentSource))] = srcW[CurrentSource]
       /\ ~IsDir(srcW, CurrentSource) =>
            FileTarget \in Files /\ wtree'[FileTarget] = srcW[CurrentSource]
       /\ \A f \in Files \ Overwritten : wtree'[f] = wtree[f]
       /\ head' = head /\ htree' = htree
       /\ remote' = remote /\ prs' = prs]_vars

\* The directory copy and the file-into-directory copy have both changed the
\* worktree in this attempt, and the worktree holds the source's files.
C19_Witness ==
  /\ pc = "status" /\ idx = 2
  /\ Done("copy") # {} /\ events[Len(events)] = Ev("copy", "B", 2, TRUE)
  /\ {"A", "B"} \subseteq dirtied
  /\ wtree[<<"a", "v">>] = srcW[<<"a", "v">>]
  /\ wtree[<<"s", "c">>] = srcW[<<"s", "c">>]
  /\ wtree[<<"t">>] = htree[<<"t">>]


\* The resolved source path of the n-th copy operation.
SourcePath(n) ==
  Rel(FullPath(SourceEnv),
      SecureJoin(FullPath(SourceEnv), specs.promotion.copy[n].source).path)

\* The failed copy calls of this attempt whose source path does not exist.
SourceMissing ==
  {k \in Failed \cap Calls("copy") : ~Exists(srcW, SourcePath(events[k].n))}

(***************************************************************************)
(* C20: missing source.  No copy of a source path that does not exist      *)
(* succeeds.  When the copy of an operation failed on a missing source,    *)
(* the attempt returns an error, the target worktree is as HEAD has it, no *)
(* commit or push was issued for that operation or a later one, no pull    *)
(* request was created or edited, and the commits pushed for the earlier   *)
(* operations are on the remote branch.                                    *)
(***************************************************************************)
C20_MissingSource ==
  /\ \A k \in Done("copy") : Exists(srcW, SourcePath(events[k].n))
  /\ \A k \in SourceMissing :
       /\ result = "err" /\ Returned(result).err
       /\ wtree = htree
       /\ \A j \in Calls("commit") \cup Calls("push") : events[j].n < events[k].n
       /\ Mutations = {}
       /\ Done("push") # {} =>
            /\ branch \in DOMAIN remote
            /\ remote[branch].log = head
            /\ remote[branch].tree = htree
            /\ Len(NewCommits) = Cardinality(Done("push"))

\* An earlier operation was pushed in this attempt and the copy of a later
\* one failed on its missing source.
C20_Witness ==
  /\ SourceMissing # {}
  /\ Done("push") # {}
  /\ \E k \in SourceMissing : events[k].n > 1


(***************************************************************************)
(* Target Environments of several configurations: the README's, one        *)
(* without a credential secret, one at a host outside .com, one without a  *)
(* provider; and the credential secret of an Environment can go away or be *)
(* replaced by one whose key does not parse.                               *)
(***************************************************************************)
Configured(sp, e, url, secretRef, gitProvider) ==
  [sp EXCEPT !.environment[e].url = url,
             !.environment[e].secretRef = secretRef,
             !.environment[e].gitProvider = gitProvider]

\* One pair of repositories: the source has a new version of the directory.
DriftedSource == [f \in Files |-> IF f = <<"a", "v">> THEN 2 ELSE 1]
SettledTarget == [f \in Files |-> 1]

TargetConfigs ==
  { [url |-> GitHubURL, secretRef |-> TRUE, gitProvider |-> GitProviderGitHub],
    [url |-> GitHubURL, secretRef |-> FALSE, gitProvider |-> GitProviderGitHub],
    [url |-> SelfHostedURL, secretRef |-> TRUE, gitProvider |-> GitProviderGitHub],
    [url |-> GitHubURL, secretRef |-> TRUE, gitProvider |-> NoGitProvider] }

ConfigInit ==
  \E c \in TargetConfigs :
    /\ InitWith(Configured(StoreSpecs(CopyList, [branch |-> TargetBranch]),
                           TargetEnv, c.url, c.secretRef, c.gitProvider))
    /\ srcTree = DriftedSource
    /\ tgtMain = SettledTarget

SecretChange(e) ==
  /\ pc = "idle"
  /\ specs.environment[e].secretRef
  /\ specs.secret[e] = "valid"
  /\ \E st \in SecretStates \ {"valid"} :
       specs' = [specs EXCEPT !.secret[e] = st]
  /\ hist' = [hist EXCEPT !.quiet = FALSE]
  /\ UNCHANGED <<world, pc, result, locals, events, dirtied, counters,
                 workspaces, outage, conc>>

ConfigNext ==
  \/ Next
  \/ \E e \in Envs : SecretChange(e)

ConfigSpec == ConfigInit /\ [][ConfigNext]_vars

\* git@<host>:<path> of the URL https://<host>/<path>.
ScpForm(url) ==
  LET slash == Index(Tail(url), <<"/">>) + 1 IN
    <<"git@">> \o SubSeq(url, 2, slash - 1) \o <<":">> \o
    SubSeq(url, slash + 1, Len(url))

(***************************************************************************)
(* C21: the URL rule of the credential resolver.  For an Environment with  *)
(* a credential secret (that is there and parses) SetupGitAuthEnvironment  *)
(* returns git@<host>:<path> for the URL https://<host>/<path>, whatever   *)
(* the host, and SSH auth options with user git; for an Environment        *)
(* without one it returns the URL as it is and no auth options.            *)
(***************************************************************************)
C21_CloneURLRule ==
  \A e \in Envs :
    LET envSpec == specs.environment[e]
        r == SetupGitAuthEnvironment(envSpec, "valid") IN
      /\ ~r.err
      /\ envSpec.secretRef =>
           r.cloneURL = ScpForm(envSpec.url) /\ r.auth = [user |-> "git"]
      /\ ~envSpec.secretRef =>
           r.cloneURL = envSpec.url /\ r.auth = NoAuth


\* The credentials of Environment e cannot be set up: it names a Secret that
\* is not there or whose key does not parse.
BadCredentials(e) == specs.environment[e].secretRef /\ specs.secret[e] # "valid"

\* The failed calls of SetupGitAuthEnvironment in this attempt.
AuthFailures == Calls("auth")

(***************************************************************************)
(* C22: a credential failure aborts before any remote effect.  No clone is *)
(* attempted for an Environment whose credentials cannot be set up; a      *)
(* failed SetupGitAuthEnvironment is the last call of its attempt, which   *)
(* returns an error having listed, fetched, created or edited no pull      *)
(* request and made no commit and no push, and, when it failed inside      *)
(* GitCloneEnvironment, without a clone of that Environment.               *)
(***************************************************************************)
C22_CredentialFailure ==
  /\ \A k \in Calls("clone") : ~BadCredentials(events[k].op)
  /\ \A k \in AuthFailures :
       /\ ~events[k].ok /\ k = Len(events)
       /\ pc = "exit" /\ result = "err" /\ Returned(result).err
       /\ Calls("list") \cup Calls("get") \cup Mutations = {}
       /\ Calls("commit") \cup Calls("push") = {}
       /\ events[k].n = 0 =>
            \A j \in Calls("clone") : events[j].op # events[k].op

\* Both Environments were ready, the source was cloned, and the target's
\* Secret is gone or unusable when its clone is due.
C22_Witness ==
  /\ pc = "exit" /\ result = "err"
  /\ BadCredentials(TargetEnv)
  /\ events[Len(events)] = Ev("auth", TargetEnv, 0, FALSE)
  /\ Done("clone") # {}


(***************************************************************************)
(* C23: an unknown provider fails fast.  When the target Environment names *)
(* no provider the code knows, an attempt that has cloned both             *)
(* repositories ends with a returned error, without a call on a nil        *)
(* provider client, without a panic and without a pull request call.       *)
(***************************************************************************)
C23_UnknownProvider ==
  ProviderClient(specs.environment[TargetEnv]) = "nil" =>
    /\ result # "panic"
    /\ Calls("panic") = {}
    /\ Calls("list") \cup Calls("get") \cup Mutations = {}
    /\ (pc = "exit" /\ Cardinality(Done("clone")) = 2) =>
         result = "err" /\ Returned(result).err


(***************************************************************************)
(* Fair delivery over one pair of repositories, the source ahead of the    *)
(* target, with new commits arriving on the source and no pull request     *)
(* closed by hand.                                                         *)
(***************************************************************************)
PollInit ==
  /\ Init
  /\ srcTree = DriftedSource
  /\ tgtMain = SettledTarget

PollNext ==
  \/ Attempt
  \/ \E e \in Envs : EnvironmentRequest(e)
  \/ SourceChange
  \/ Recover

PollSpec == PollInit /\ [][PollNext]_vars /\ WF_vars(Attempt)

\* The running attempt has cloned the source at its present head.
SourceExamined == pc = "cloneTarget" /\ srcSha = srcHead

(***************************************************************************)
(* C24: steady-state re-poll.  Once the calls have stopped failing, from    *)
(* every attempt that completes without an error and after which one more  *)
(* attempt fits the bound, fair delivery leads to a later attempt that has *)
(* cloned the source at its present head, and what the completed attempt   *)
(* returned is a requeue delay of 300 seconds and no error.                *)
(***************************************************************************)
C24_SteadyStateRepoll ==
  (pc = "exit" /\ result = "ok" /\ ~outage /\ attempts < MaxAttempts)
    ~> (/\ SourceExamined
        /\ Returned(hist.outcome) = [requeueAfter |-> 300, err |-> FALSE])

\* An attempt that follows a successful one has cloned a source head that
\* arrived after that one returned.
C24_Witness ==
  /\ SourceExamined
  /\ hist.outcome = "ok" /\ ~hist.quiet
  /\ srcHead > 1 /\ attempts = 2

\* ---------------------------------------------------------------------
\* C25: the operations of one attempt occur in one fixed order: clone the
\* source, clone the target, list the requests, then get the request and
\* fetch its refs when one is open, check out the branch, then for each
\* copy operation in the order of the list its copy followed by its
\* commit and its push, then at most one Create or Edit; an attempt stops
\* at its first failure; and when the attempt has returned, its temporary
\* directories were removed before its status was written.

\* The place of an operation in the order of Reconcile's statements.
Place(ev) ==
  CASE ev.e \in {"tempdir", "clone"} -> IF ev.op = SourceEnv THEN 1 ELSE 2
    [] ev.e = "auth" -> IF ev.n = 1 THEN 3 ELSE IF ev.op = SourceEnv THEN 1 ELSE 2
    [] ev.e = "setup" -> 3
    [] ev.e = "list" -> 4
    [] ev.e = "get" -> 5
    [] ev.e = "fetch" -> 6
    [] ev.e \in {"checkout", "checkoutNew"} -> 7
    [] ev.e \in {"resolve", "copy"} -> 10 * ev.n + 1
    [] ev.e = "status" -> 10 * ev.n + 2
    [] ev.e = "commit" -> 10 * ev.n + 3
    [] ev.e = "push" -> 10 * ev.n + 4
    [] ev.e \in {"create", "edit"} -> 10 * (NumOps + 1)
    [] OTHER -> 10 * (NumOps + 2)

\* The places an operation at place p may directly follow.
Before(p) ==
  CASE p = 1 -> {0}
    [] p = 2 -> {1}
    [] p = 3 -> {2}
    [] p = 4 -> {3}
    [] p = 5 -> {4}
    [] p = 6 -> {5}
    [] p = 7 -> {4, 6}
    [] p = 11 -> {7}
    [] p = 10 * (NumOps + 1) -> {10 * NumOps + 2, 10 * NumOps + 4}
    [] p = 10 * (NumOps + 2) -> 0..(10 * (NumOps + 1))
    [] p % 10 = 1 -> {p - 9, p - 7}
    [] OTHER -> {p - 1}

C25_StrictSequencing ==
  /\ \A k \in 1..Len(events) :
       /\ (IF k = 1 THEN 0 ELSE Place(events[k - 1])) \in Before(Place(events[k]))
       /\ k < Len(events) => events[k].ok
  /\ Cardinality(Calls("create") \cup Calls("edit")) <= 1
  /\ hist.clean

C25_Witness ==
  /\ pc = "exit" /\ hist.outcome = "ok" /\ hist.clean
  /\ Calls("fetch") # {} /\ Calls("push") # {} /\ Calls("edit") # {}

(***************************************************************************)
(* The Environment reconciler on its own.  An attempt for an Environment   *)
(* may start at any time (the cache's resync, an edit of the object), but  *)
(* only the requests the code accounts for are sure to be delivered: those *)
(* of EnvironmentRequest.  Secrets change and the outage ends.             *)
(***************************************************************************)
EnvNext ==
  \/ \E e \in Envs : EnvironmentReconcile(e)
  \/ \E e \in Envs : SecretChange(e)
  \/ SourceChange
  \/ Recover

EnvSpec ==
  /\ Init
  /\ [][EnvNext]_vars
  /\ \A e \in Envs : WF_vars(EnvironmentRequest(e))

\* A clone of Environment e succeeds if it is tried now.
ClonesSucceed(e) ==
  /\ ~outage
  /\ ~GitAuth(e).err
  /\ CloneAccepts(GitAuth(e).cloneURL)

\* C26: when the head commit of the source Environment's branch has moved on
\* from the observed commit of the ready Environment, the observed commit
\* hash eventually equals the head, unless clones stop succeeding.
C26_EnvironmentRefresh ==
  (envReady[SourceEnv] /\ envObserved[SourceEnv] # srcHead)
    ~> (envObserved[SourceEnv] = srcHead \/ ~ClonesSucceed(SourceEnv))

\* C27: an Environment is ready only if an attempt cloned it and read its
\* head; readiness and the observed commit hash change only in a step that
\* clones successfully, which writes the head the clone read; a ready
\* Environment stays ready whatever the later attempts return.
C27_ReadyOnceCloned ==
  /\ [](\A e \in Envs :
          /\ envReady[e] <=> envObserved[e] # NoCommit
          /\ envObserved[e] \in {NoCommit} \cup 1..HeadCommit(e))
  /\ [][\A e \in Envs :
          /\ envReady[e] => envReady'[e]
          /\ (envReady'[e] # envReady[e] \/ envObserved'[e] # envObserved[e]) =>
                /\ ~GitAuth(e).err /\ CloneAccepts(GitAuth(e).cloneURL)
                /\ envReady'[e]
                /\ envObserved'[e] = HeadCommit(e)]_vars

C27_Witness ==
  /\ envReady[SourceEnv]
  /\ envObserved[SourceEnv] # srcHead
  /\ specs.secret[SourceEnv] = "missing"
  /\ outage

(***************************************************************************)
(* Attempts of different Promotions in flight at once.  The controller     *)
(* runs at most one attempt per object; attempts of different objects      *)
(* interleave step by step on one disk.                                    *)
(***************************************************************************)
\* The directory that holds path p of the disk.
DirOf(p) == p[1]

\* Lines 229-242: the paths the copy operations of copy list read and write
\* for workspaces w, each a SecureJoin below its workspace.
CopyPaths(w, copy) ==
  UNION {{SecureJoin(<<w.source>>, copy[k].source).path,
          SecureJoin(<<w.target>>, copy[k].target).path} : k \in 1..Len(copy)}

\* Lines 105-113 and 117-125: a directory is made, its removal deferred and
\* the Environment cloned into it; a failed call returns.
ConcProvision(p) ==
  /\ conc.at[p] \in {"idle", "source"}
  /\ \/ \E d \in MkdirTemp(conc.disk, p), cloned \in BOOLEAN :
          conc' = [conc EXCEPT
                     !.disk = @ \cup {d},
                     !.made[p] = Append(@, d),
                     !.used[p] = @ \cup {d},
                     !.at[p] = IF ~cloned THEN "return"
                               ELSE IF conc.at[p] = "idle" THEN "source"
                               ELSE "target"]
     \/ conc' = [conc EXCEPT !.at[p] = "return"]
  /\ UNCHANGED <<world, pc, result, locals, events, dirtied, counters, hist,
                 workspaces, specs, outage>>

\* Lines 229-244: the copy operations read below the source workspace and
\* write below the target workspace.
ConcCopy(p) ==
  /\ conc.at[p] = "target"
  /\ \E copy \in {CopyList} \cup EscapingCopyLists :
       conc' = [conc EXCEPT
                  !.used[p] = @ \cup {DirOf(path) :
                                        path \in CopyPaths(Workspaces(conc.made[p]), copy)},
                  !.at[p] = "return"]
  /\ UNCHANGED <<world, pc, result, locals, events, dirtied, counters, hist,
                 workspaces, specs, outage>>

\* Reconcile returns: the deferred removals run.
ConcReturn(p) ==
  /\ conc.at[p] = "return"
  /\ conc' = [conc EXCEPT
                !.disk = RemoveAll(@, conc.made[p]),
                !.made[p] = <<>>,
                !.used[p] = {},
                !.at[p] = "idle"]
  /\ UNCHANGED <<world, pc, result, locals, events, dirtied, counters, hist,
                 workspaces, specs, outage>>

ConcNext ==
  \E p \in Proms :
    \/ ConcProvision(p)
    \/ ConcCopy(p)
    \/ ConcReturn(p)

ConcSpec == Init /\ [][ConcNext]_vars

\* The directories made by the attempt of p that is in flight.
MadeBy(p) == {conc.made[p][k] : k \in 1..Len(conc.made[p])}

OpenRequests == {n \in 1..Len(prs) : prs[n].open}

\* C29: at most one pull request created by the Promotion is open at any
\* time, and the call before which Create is issued finds none open.
C29_SingleOpenRequest ==
  /\ Cardinality(OpenRequests) <= 1
  /\ Done("create") # {} => Cardinality(OpenRequests) = 1

(***************************************************************************)
(* The operator points the target Environment at another repository.  Its  *)
(* provider numbers its pull requests from 1 like any other; somebody has  *)
(* an open pull request there, from a branch of their own.                 *)
(***************************************************************************)
OtherRepoURL == <<"https://", "github", ".com", "/", "org", "/", "other">>
TheirBranch == [prefix |-> "feature", prom |-> "", ts |-> 0]
TheirRequests ==
  <<[number |-> 1, head |-> TheirBranch, base |-> TargetBranch,
     title |-> PRTitle(<<>>), open |-> TRUE]>>
TheirRemote == [b \in {TheirBranch} |-> [tree |-> tgtMain, log |-> <<>>]]

\* An edit of the target Environment's spec.source.url between two attempts.
\* Nothing in the Promotion's status is tied to the repository: line 178
\* compares numbers only.
Retarget ==
  /\ pc = "idle"
  /\ specs.environment[TargetEnv].url = GitHubURL
  /\ specs' = [specs EXCEPT !.environment[TargetEnv].url = OtherRepoURL]
  /\ prs' = TheirRequests
  /\ remote' = TheirRemote
  /\ hist' = [hist EXCEPT !.quiet = FALSE]
  /\ UNCHANGED <<envStatus, srcTree, srcHead, tgtMain, stored, now, pc, result,
                 locals, events, dirtied, counters, workspaces, outage, conc>>

RetargetNext ==
  \/ Next
  \/ Retarget

RetargetSpec == Init /\ [][RetargetNext]_vars

\* A pull request that an attempt of the Promotion created: its head is a
\* branch named after the Promotion (line 210).
Own(n) ==
  /\ n \in 1..Len(prs)
  /\ prs[n].head.prefix = "promotion"
  /\ prs[n].head.prom = PromName

\* C30: every Get and every Edit names a pull request that the Promotion
\* created in the repository the target Environment points at, and every
\* forced checkout of a pull request's branch and every push onto it is of
\* a branch of such a pull request.
C30_OwnRequestsOnly ==
  /\ \A k \in Done("get") \cup Done("edit") : Own(events[k].n)
  /\ (Done("checkout") # {}) =>
        /\ branch.prefix = "promotion"
        /\ branch.prom = PromName

(***************************************************************************)
(* C31: the recorded request changes only through Create.  The stored     *)
(* lastPullRequestNumber and lastPullRequestURL are both empty or are the  *)
(* number and the URL of one pull request that a Create call returned; a   *)
(* step changes them only as the status write of an attempt whose Create   *)
(* succeeded, to what that Create returned, and never back to empty:       *)
(* attempts that wait, fail, edit or find nothing to do leave them alone.  *)
(***************************************************************************)
Recorded(st) == <<st.lastN, st.lastURL>>

C31_RecordedByCreate ==
  /\ [](\/ Recorded(stored) = <<0, NoURL>>
        \/ /\ stored.lastN \in 1..Len(prs)
           /\ stored.lastURL = WebURL(stored.lastN))
  /\ [][Recorded(stored') # Recorded(stored) =>
          /\ pc = "exit"
          /\ \E k \in Done("create") :
               Recorded(stored') = <<events[k].n, WebURL(events[k].n)>>]_vars

\* An attempt has edited the recorded request and is about to write its
\* status.
C31_Witness ==
  /\ pc = "exit" /\ result = "ok"
  /\ \E k \in Done("edit") : Recorded(stored) = <<events[k].n, WebURL(events[k].n)>>

(***************************************************************************)
(* C32: Create follows a push.  When an attempt has called Create, a push  *)
(* of that attempt succeeded before the call, the head of the created pull *)
(* request is the branch that was pushed, the remote has that branch, and  *)
(* the branch carries a commit made by this attempt.                       *)
(***************************************************************************)
\* The commits of log that attempt a made.
CommitsOf(log, a) == {j \in 1..Len(log) : log[j].id = a}

C32_CreateFollowsPush ==
  \A k \in Calls("create") :
    /\ \E j \in Done("push") : j < k
    /\ branch \in DOMAIN remote
    /\ CommitsOf(remote[branch].log, attempts) # {}
    /\ events[k].ok => prs[events[k].n].head = branch

C32_Witness ==
  /\ pc = "exit" /\ result = "ok"
  /\ \E k \in Done("create") :
       /\ prs[events[k].n].head = branch
       /\ Cardinality(CommitsOf(remote[branch].log, attempts)) = Cardinality(Done("push"))
       /\ Cardinality(Done("push")) > 1

(***************************************************************************)
(* C33: a clean tree at the start of every copy operation.  The target     *)
(* worktree equals the tree of HEAD when a branch has just been checked    *)
(* out, when a commit has just been made and whenever a copy operation is  *)
(* about to start; and a commit step records exactly what the copy         *)
(* operation named in its message made of the tree of HEAD.                *)
(***************************************************************************)
\* A copy operation is about to start, or the loop has just ended.
AtOperationStart == pc = "copy" \/ (pc = "sync" /\ Done("checkout") \cup Done("checkoutNew") # {})

C33_CleanAtCopy ==
  /\ []((AtOperationStart \/ pc = "push") => IsClean(wtree, htree))
  /\ [][(pc = "commit" /\ pc' = "push") =>
          /\ Len(head') = Len(head) + 1
          /\ head'[Len(head')].message.subject = CopyList[idx].name
          /\ htree' # htree
          /\ htree' = CopyOperation(srcW, htree, CopyList[idx].source,
                                    CopyList[idx].target).tree]_vars

\* The second commit of an attempt has just been made.
C33_Witness ==
  /\ pc = "push"
  /\ Cardinality(Done("commit")) = 2
  /\ IsClean(wtree, htree)

(***************************************************************************)
(* A Promotion that is created before one of its Environments.  The        *)
(* operator creates the missing Environment later.                         *)
(***************************************************************************)
MissingInit ==
  \E absent \in Envs :
    InitWith([StoreSpecs(CopyList, [branch |-> TargetBranch])
                EXCEPT !.present = @ \ {absent}])

\* The operator creates Environment e.
CreateEnvironment(e) ==
  /\ pc = "idle"
  /\ e \notin specs.present
  /\ specs' = [specs EXCEPT !.present = @ \cup {e}]
  /\ hist' = [hist EXCEPT !.quiet = FALSE]
  /\ UNCHANGED <<world, pc, result, locals, events, dirtied, counters,
                 workspaces, outage, conc>>

MissingNext ==
  \/ Next
  \/ \E e \in Envs : CreateEnvironment(e)

MissingSpec == MissingInit /\ [][MissingNext]_vars

\* C34: no dead end.  An attempt that has returned has returned an error
\* or a positive requeue delay, so that another attempt is delivered; this
\* includes an attempt that did not find a referenced Environment.
C34_NoDeadEnd ==
  hist.outcome # "none" =>
    \/ Returned(hist.outcome).err
    \/ Returned(hist.outcome).requeueAfter > 0

(***************************************************************************)
(* C35: the title covers the whole request.  When an attempt has returned  *)
(* without error and the recorded pull request is open, its title names    *)
(* every copy operation that has a commit on the request's branch, the     *)
(* commits of earlier attempts included.                                   *)
(***************************************************************************)
\* The operations named by the commits on branch b of the remote.
Contributors(b) == {remote[b].log[j].message.subject : j \in 1..Len(remote[b].log)}

\* The operations that a title names.
Named(title) == {title.subjects[j] : j \in 1..Len(title.subjects)}

C35_TitleCoversRequest ==
  (/\ pc = "idle" /\ hist.outcome = "ok"
   /\ stored.lastN \in 1..Len(prs)
   /\ prs[stored.lastN].open
   /\ prs[stored.lastN].head \in DOMAIN remote)
    => Contributors(prs[stored.lastN].head) \subseteq Named(prs[stored.lastN].title)

(***************************************************************************)
(* A Promotion that is deleted.  The deletion delivers an attempt, which   *)
(* does not find the object.                                               *)
(***************************************************************************)
\* The operator deletes the Promotion.
DeletePromotion ==
  /\ pc = "idle"
  /\ PromName \in specs.present
  /\ specs' = [specs EXCEPT !.present = @ \ {PromName}]
  /\ hist' = [hist EXCEPT !.quiet = FALSE]
  /\ UNCHANGED <<world, pc, result, locals, events, dirtied, counters,
                 workspaces, outage, conc>>

\* Lines 66-69: r.Get does not find the Promotion and Reconcile returns
\* before anything is deferred.
BeginGone ==
  /\ pc = "idle"
  /\ PromName \notin specs.present
  /\ attempts < MaxAttempts
  /\ hist.outcome # "gone"
  /\ attempts' = attempts + 1
  /\ hist' = [hist EXCEPT !.outcome = "gone", !.pushed = <<>>, !.failed = ""]
  /\ UNCHANGED <<world, pc, result, locals, events, dirtied, srcChanges, aside>>

GoneNext ==
  \/ Next
  \/ DeletePromotion
  \/ BeginGone

GoneSpec == Init /\ [][GoneNext]_vars

(***************************************************************************)
(* C36: a status write on every exit.  An attempt that found the Promotion *)
(* ends with one deferred step, on success, wait and error alike: its      *)
(* temporary directories are removed, then the status as the attempt left  *)
(* it is written with observedGeneration set to the object's generation,   *)
(* or the write fails and the stored status stays; what the attempt        *)
(* returns is the same either way.  The stored status changes in no other  *)
(* step.  An attempt that does not find the Promotion changes nothing:     *)
(* no directory, no call, no repository, no pull request, no status.       *)
(***************************************************************************)
C36_StatusWriteOnExit ==
  [][/\ (pc # "idle" /\ pc' = "idle") =>
          /\ pc = "exit"
          /\ stored' \in {stored, [obj EXCEPT !.observedGeneration = Generation]}
          /\ hist'.outcome = result
          /\ hist'.clean /\ tmpDirs' = {}
     /\ stored' # stored => pc = "exit"
     /\ (PromName \notin specs.present /\ attempts' # attempts) =>
          /\ pc' = "idle"
          /\ <<world, workspaces, events, locals>>' = <<world, workspaces, events, locals>>]_vars

\* A first attempt wrote its status without having created a pull request;
\* the Promotion was then deleted and the attempt for the deletion did not
\* find it.
C36_Witness ==
  /\ hist.outcome = "gone"
  /\ PromName \notin specs.present
  /\ attempts = 2
  /\ stored.observedGeneration = Generation
  /\ stored.lastN = 0
====
